---- MODULE Spec2Model ----
(***************************************************************************)
(* Head Knock Scroll: the head-position sensing pipeline of the popup.     *)
(*                                                                         *)
(* Two frame drivers exist in the repository:                              *)
(*   - src/popup.js: requestAnimationFrame loop, synchronous region scorer *)
(*     (specification Spec);                                               *)
(*   - the incoming side of the merge in src/unnamed/part_000: the         *)
(*     requestVideoFrameCallback loop with FaceDetector and worker tiers   *)
(*     (specification SpecW).  From "if (faceY !== null)" on, its          *)
(*     detectMovement is the code of popup.js, and so are stopTracking and *)
(*     the state reset of startTracking: the two specifications share      *)
(*     these definitions.  SpecW follows the start, stop, frame and        *)
(*     detector events of the first samples of each session; the active    *)
(*     phase, its timers and the scroll executor are followed in Spec.     *)
(*                                                                         *)
(* Numbers.  Vertical positions are JavaScript doubles.  They are modelled *)
(* as fixed-point numbers, in units of 1/Scale pixel, every arithmetic     *)
(* result rounded to the nearest unit.  JavaScript null is the value Null, *)
(* which lies outside the range of every coordinate (coordinates are >= 0).*)
(*                                                                         *)
(* Time.  The code fixes the delays of its timers (500, 800, 2000 ms) but  *)
(* not the pace of frames (requestAnimationFrame follows the display) nor  *)
(* the latency of the camera, the tab query or the script injection.  So   *)
(* timers fire in the order of their deadlines, and nothing else is        *)
(* assumed about the order of timers and the other events.                 *)
(***************************************************************************)
EXTENDS Integers, Sequences, FiniteSets, TLC

(* ------------------------------ bounds --------------------------------- *)
\* number of clicks on the start button in one run
MaxStarts == 2
\* detected samples after calibration (active-phase samples) in one run
MaxActiveFrames == 3
\* the head moves freely during the first SettleFrames detected samples of a
\* session and after calibration, and holds still in between
SettleFrames == 1
\* detected samples processed while a startTracking invocation is suspended
MaxPendingSamples == 2
\* executeScroll invocations that may still be in flight when a detected
\* sample is processed (the tab query and the script injection settle within
\* milliseconds)
MaxScrollsInFlight == 0
\* failures of the environment in one run (camera, video, tab query, script
\* injection, canvas)
MaxFaults == 1
\* input events of the two sliders in one run
MaxSettingChanges == 1
\* the same budgets for the runs of the worker-enabled driver
MaxStartsW == 2
MaxFaultsW == 1
MaxSettingChangesW == 1
\* the runs of the worker-enabled driver follow each session for its first
\* MaxFrameCountW detected samples (the code of the later samples is that of
\* popup.js)
MaxFrameCountW == 3
\* active-phase samples in a run of the gesture translator
MaxActiveFramesT == 2
\* the runs that follow a calibrated session under fair timers: restarts,
\* active-phase samples, failures and slider events in one run
MaxStartsL == 1
MaxActiveFramesL == 2
MaxFaultsL == 1
MaxSettingChangesL == 1
\* detected samples in a run of the temporal filter
MaxSamplesS == 14
\* detected samples in a run of the region scorer
MaxSamplesR == 2
\* the pixel buffers the region scorer is run on: their width and height,
\* and the row at which the lower colour band begins
BufferWidth == 2
BufferHeight == 22
BandSplit == 18
\* fixed-point units per pixel
Scale == 10
\* the raw positions fed to the temporal filter: the step from StepLow to
\* StepHigh (px) and back
StepLow == 10
StepHigh == 20
RawValuesS == {StepLow, StepHigh}
\* vertical centres a detector can return (the region scorer of popup.js
\* returns 72 + 15k + 15 on a 640x480 buffer): looking up, straight ahead, down
RawValues == <<87, 147, 237>>
ThresholdValues == {10, 25}
SpeedValues == {80, 150}
\* the runs of the gesture translator: the baseline (pixels), the detected
\* positions (pixels) and the slider positions
BaselineT == 100
RawValuesT == {10, 95, 100, 105, 270, 400}
ThresholdValuesT == {10, 25, 50}
SpeedValuesT == {20, 80, 150}
\* the runs of the gesture translator at every slider position: the baseline
\* (pixels), the detected positions (pixels) and the number of samples
BaselineA == 200
RawValuesA == {40, 300, 400}
MaxActiveFramesA == 1

(* ------------------------- program constants --------------------------- *)
Null == -1
Handle == 1
CALIBRATION_FRAMES == 90
\* SMOOTHING_FACTOR = 0.7 = SMOOTHING_FACTOR / SmoothingDen
SMOOTHING_FACTOR == 7
SmoothingDen == 10
MaxIntensity == 4
NumConstraints == 4
UnlockDelay == 500
FeedbackDelay == 800
ScrollErrorDelay == 2000
DefaultThreshold == 25
DefaultSpeed == 80

VARIABLES
  isTracking, stream, animationId,
  calibrationData, baselineY, scrollLock, frameCount, smoothedY,
  MOVEMENT_THRESHOLD, SCROLL_SPEED,
  status,            \* status.textContent / className, as [type, msg, arg]
  startBtnShown, stopBtnShown,
  rafQueue,          \* pending requestAnimationFrame callbacks, oldest first;
                     \* TRUE marks the callback whose id is in animationId
  timers,            \* pending setTimeout callbacks
  scrolls,           \* executeScroll invocations suspended on an await
  starts,            \* startTracking invocations suspended on an await
  liveStreams,       \* camera streams whose tracks have not been stopped
  \* the worker-enabled driver (src/unnamed/part_000)
  caps,              \* what the browser offers: [rvfc, detector, worker]
  frames,            \* detectMovement invocations suspended on an await
  rvfcQueue,         \* number of pending requestVideoFrameCallback callbacks
  pendingWorkerPromises,  \* correlation ids with a resolver waiting
  workerInbox,       \* messages posted to the worker, not yet handled
  workerReplies,     \* messages posted by the worker, not yet handled
  \* history variables (not program state)
  startsLeft,        \* clicks on the start button still possible
  session,           \* number of sessions started (state resets executed)
  stoppedUpTo,       \* sessions 1..stoppedUpTo have been stopped
  pendingLeft,       \* samples that may still be processed while a start is awaited
  faultsLeft,        \* failures of the environment still possible
  activeLeft,        \* active-phase samples still possible
  settingsLeft,      \* slider input events still possible
  frameLimit,        \* detected samples of one session that are followed
  smoothedLog,       \* smoothed samples produced since the last state reset
  lastOutcome,       \* what the latest detected sample of the session did
  lockReleased,      \* a lock-release timer has fired since the last scroll action
  tierLog,           \* the detection tiers the latest completed frame went through
  imageData          \* the pixel buffer the region scorer reads

vars == <<isTracking, stream, animationId, calibrationData, baselineY,
          scrollLock, frameCount, smoothedY, MOVEMENT_THRESHOLD, SCROLL_SPEED,
          status, startBtnShown, stopBtnShown, rafQueue, timers, scrolls,
          starts, liveStreams, caps, frames, rvfcQueue, pendingWorkerPromises,
          workerInbox, workerReplies, startsLeft, session, stoppedUpTo, pendingLeft,
          faultsLeft, activeLeft, settingsLeft, frameLimit, smoothedLog,
          lastOutcome, lockReleased, tierLog, imageData>>

(* --------------------------- arithmetic -------------------------------- *)
Abs(x) == IF x < 0 THEN -x ELSE x

Min(a, b) == IF a < b THEN a ELSE b

\* Math.round(a / b) for a >= 0, b > 0
RoundDiv(a, b) == (2 * a + b) \div (2 * b)

RECURSIVE SumSeq(_)
SumSeq(q) == IF q = <<>> THEN 0 ELSE Head(q) + SumSeq(Tail(q))

\* calibrationData.reduce((a, b) => a + b, 0) / calibrationData.length
Mean(q) == RoundDiv(SumSeq(q), Len(q))

\* Smooth with the two weights exchanged
Smooth_WeightsSwapped(prev, raw) ==
  RoundDiv(prev * (SmoothingDen - SMOOTHING_FACTOR) + raw * SMOOTHING_FACTOR,
           SmoothingDen)

\* Smooth without a memory of the previous value
Smooth_NoMemory(prev, raw) == raw

\* smoothedY * SMOOTHING_FACTOR + faceY * (1 - SMOOTHING_FACTOR)
Smooth(prev, raw) ==
  RoundDiv(prev * SMOOTHING_FACTOR + raw * (SmoothingDen - SMOOTHING_FACTOR),
           SmoothingDen)

\* ScrollAmount without Math.min(..., 4)
ScrollAmount_Uncapped(d, threshold, speed) ==
  RoundDiv(d * speed, threshold * Scale)

\* Math.round(Math.min(Math.abs(deltaY) / MOVEMENT_THRESHOLD, 4) * SCROLL_SPEED),
\* d = |deltaY| in units
ScrollAmount(d, threshold, speed) ==
  IF d >= MaxIntensity * threshold * Scale
    THEN MaxIntensity * speed
    ELSE RoundDiv(d * speed, threshold * Scale)

\* remove the i-th element of a sequence
RemoveAt(q, i) == SubSeq(q, 1, i - 1) \o SubSeq(q, i + 1, Len(q))

(* --------------------- numbers of the region scorer -------------------- *)
\* The brightness of the region scorer is computed in IEEE-754 doubles. A
\* Double is the value of a non-negative double counted in units of
\* 2^-UnitBits, written as little-endian digits of base LimbBase (no leading
\* zero digit; <<>> is 0). Every double the brightness sums of a buffer of 8-bit
\* channels go through is a whole number of these units; an operation
\* computes the exact result and rounds it to MantissaBits significant bits,
\* ties to even.
LimbBits == 15
LimbBase == 32768
MantissaBits == 53
UnitBits == 56

RECURSIVE Norm(_)
Norm(a) ==
  IF a = <<>> THEN a
  ELSE IF a[Len(a)] = 0 THEN Norm(SubSeq(a, 1, Len(a) - 1)) ELSE a

RECURSIVE AddC(_, _, _)
AddC(a, b, c) ==
  IF a = <<>> /\ b = <<>>
    THEN IF c = 0 THEN <<>> ELSE <<c>>
    ELSE LET x == (IF a = <<>> THEN 0 ELSE a[1])
                  + (IF b = <<>> THEN 0 ELSE b[1]) + c
         IN <<x % LimbBase>>
            \o AddC(IF a = <<>> THEN a ELSE Tail(a),
                    IF b = <<>> THEN b ELSE Tail(b), x \div LimbBase)

\* a + b
BigAdd(a, b) == AddC(a, b, 0)

RECURSIVE MulC(_, _, _)
MulC(a, k, c) ==
  IF a = <<>>
    THEN IF c = 0 THEN <<>> ELSE <<c>>
    ELSE LET x == a[1] * k + c
         IN <<x % LimbBase>> \o MulC(Tail(a), k, x \div LimbBase)

\* a * k for 0 <= k < LimbBase
BigMul(a, k) == Norm(MulC(a, k, 0))

RECURSIVE DivStep(_, _)
DivStep(a, d) ==
  IF a = <<>>
    THEN [q |-> <<>>, r |-> 0]
    ELSE LET hi == DivStep(Tail(a), d)
             cur == hi.r * LimbBase + a[1]
         IN [q |-> <<cur \div d>> \o hi.q, r |-> cur % d]

\* quotient and remainder of a by d, 0 < d < LimbBase
BigDiv(a, d) == LET x == DivStep(a, d) IN [q |-> Norm(x.q), r |-> x.r]

\* the number of significant bits of a
BitLen(a) ==
  IF a = <<>> THEN 0
  ELSE ((Len(a) - 1) * LimbBits)
       + (CHOOSE n \in 1..LimbBits : 2^n > a[Len(a)] /\ 2^(n - 1) <= a[Len(a)])

\* a * 2^s
ShiftLeft(a, s) ==
  IF a = <<>> THEN a
  ELSE [i \in 1..(s \div LimbBits) |-> 0] \o BigMul(a, 2^(s % LimbBits))

\* floor(a / 2^s), and whether a bit was shifted out
ShiftRight(a, s) ==
  LET l == Min(s \div LimbBits, Len(a))
      d == BigDiv(SubSeq(a, l + 1, Len(a)), 2^(s % LimbBits))
  IN [q |-> d.q, sticky |-> d.r # 0 \/ \E i \in 1..l : a[i] # 0]

\* (a + fraction) / 2^s rounded to the nearest integer, ties to even, times
\* 2^s; s >= 1, and sticky tells that the fraction is not zero
RoundAt(a, s, sticky) ==
  LET sh == ShiftRight(a, s - 1)
      h == BigDiv(sh.q, 2)
      odd == h.q # <<>> /\ h.q[1] % 2 = 1
      up == h.r = 1 /\ (sh.sticky \/ sticky \/ odd)
  IN ShiftLeft(IF up THEN BigAdd(h.q, <<1>>) ELSE h.q, s)

\* the double nearest to the exact value a
RoundD(a) ==
  IF BitLen(a) <= MantissaBits THEN a
  ELSE RoundAt(a, BitLen(a) - MantissaBits, FALSE)

\* a + b in doubles
FAdd(a, b) == RoundD(BigAdd(a, b))

\* k * c in doubles, k an integer 0..255 and c a double
FMul(k, c) == RoundD(BigMul(c, k))

\* a / n in doubles, n an integer 1..LimbBase-1. A quotient below 2^-3 has
\* digits finer than the unit and is rounded to the unit.
FDiv(a, n) ==
  LET d == BigDiv(a, n)
      L == BitLen(d.q)
  IN IF L > MantissaBits
       THEN RoundAt(d.q, L - MantissaBits, d.r # 0)
       ELSE IF 2 * d.r > n \/ (2 * d.r = n /\ d.q # <<>> /\ d.q[1] % 2 = 1)
              THEN BigAdd(d.q, <<1>>)
              ELSE d.q

\* a < b
RECURSIVE BigLess(_, _)
BigLess(a, b) ==
  IF Len(a) # Len(b) THEN Len(a) < Len(b)
  ELSE IF a = <<>> THEN FALSE
  ELSE IF a[Len(a)] # b[Len(b)] THEN a[Len(a)] < b[Len(b)]
  ELSE BigLess(SubSeq(a, 1, Len(a) - 1), SubSeq(b, 1, Len(b) - 1))

\* the double of an integer 1..LimbBase-1
FromInt(k) == ShiftLeft(<<k>>, UnitBits)

\* the doubles 0.299, 0.587 and 0.114
LumaR == <<1572, 11010, 11534, 612>>
LumaG == <<784, 5505, 5767, 1202>>
LumaB == <<30409, 16252, 15466, 233>>

\* the value of a Double below 2^15 in units of 1/ScoreUnits, rounded down
ScoreUnits == 10000
ToScore(a) ==
  LET q == ShiftRight(BigMul(a, ScoreUnits \div 2^4), UnitBits - 4).q
  IN (IF Len(q) >= 1 THEN q[1] ELSE 0)
     + (IF Len(q) >= 2 THEN q[2] * LimbBase ELSE 0)

\* Math.floor(Math.sqrt(v)), v < 2^31
RECURSIVE SqrtIn(_, _, _)
SqrtIn(v, lo, hi) ==
  IF lo = hi THEN lo
  ELSE LET mid == (lo + hi + 1) \div 2
       IN IF mid * mid <= v THEN SqrtIn(v, mid, hi) ELSE SqrtIn(v, lo, mid - 1)

Sqrt(v) == SqrtIn(v, 0, 46340)

(* --------------------------- the region scorer ------------------------- *)
regionSize == 30
step == 15

\* A pixel buffer: width, height and, for each row from the top, the colour
\* <<r, g, b>> that every pixel of the row has; data.length is
\* width * height * 4, so pixelIndex + 3 < data.length holds for every pixel
\* inside the buffer.
NoImage == [width |-> 0, height |-> 0, rows |-> <<>>]

\* data[pixelIndex], data[pixelIndex + 1], data[pixelIndex + 2]
Pixel(img, x, y) == img.rows[y + 1]

\* r * 0.299 + g * 0.587 + b * 0.114
Luma(c) == FAdd(FAdd(FMul(c[1], LumaR), FMul(c[2], LumaG)), FMul(c[3], LumaB))

Max3(c) == CHOOSE m \in {c[1], c[2], c[3]} : \A n \in {c[1], c[2], c[3]} : n <= m

Min3(c) == CHOOSE m \in {c[1], c[2], c[3]} : \A n \in {c[1], c[2], c[3]} : m <= n

\* the skin-tone test of one pixel
SkinTone(c) ==
  /\ c[1] > 95 /\ c[2] > 40 /\ c[3] > 20
  /\ Max3(c) - Min3(c) > 15
  /\ Abs(c[1] - c[2]) > 15 /\ c[1] > c[2] /\ c[1] > c[3]

RECURSIVE Ascending(_)
Ascending(S) ==
  IF S = {} THEN <<>>
  ELSE LET least == CHOOSE m \in S : \A n \in S : m <= n
       IN <<least>> \o Ascending(S \ {least})

\* the values of a scan loop over one dimension:
\* for (v = Math.floor(size * low); v < size * high; v += step), with low and
\* high in hundredths (the doubles size * 0.15, 0.25, 0.75 and 0.85 compare
\* with integers as the exact products do for every size up to 5000)
ScanStarts(size, low, high) ==
  LET first == (size * low) \div 100
  IN Ascending({v \in first..size :
                  (v - first) % step = 0 /\ 100 * v < high * size})

\* the pixels of the region at (x, y) in the order of the dy and dx loops
RegionPixels(img, x, y) ==
  LET nr == Min(regionSize, img.height - y)
      nc == Min(regionSize, img.width - x)
  IN [i \in 1..(nr * nc) |-> Pixel(img, x + ((i - 1) % nc), y + ((i - 1) \div nc))]

\* the loops over dy and dx from the pixel after the pixelCount-th on:
\* totalBrightness += brightness, pixelCount++ and skinToneCount++ for a
\* skin-tone pixel
RECURSIVE SamplePixels(_, _)
SamplePixels(px, acc) ==
  IF acc.pixelCount = Len(px) THEN acc
  ELSE LET c == px[acc.pixelCount + 1]
       IN SamplePixels(px,
            [totalBrightness |-> FAdd(acc.totalBrightness, Luma(c)),
             skinToneCount |-> acc.skinToneCount
                               + (IF SkinTone(c) THEN 1 ELSE 0),
             pixelCount |-> acc.pixelCount + 1])

\* the entry pushed for the region at (x, y); pixelCount is at most 214 and
\* score is avgBrightness * 0.7 + skinToneRatio * 1000 in units of 1/ScoreUnits
Region(img, x, y) ==
  LET acc == SamplePixels(RegionPixels(img, x, y),
                          [totalBrightness |-> <<>>, skinToneCount |-> 0,
                           pixelCount |-> 0])
      avgBrightness == FDiv(acc.totalBrightness, acc.pixelCount)
  IN [x |-> x + regionSize \div 2,
      y |-> y + regionSize \div 2,
      brightness |-> avgBrightness,
      skinToneCount |-> acc.skinToneCount,
      pixelCount |-> acc.pixelCount,
      score |-> (7 * ToScore(avgBrightness)) \div 10
                + (1000 * ScoreUnits * acc.skinToneCount) \div acc.pixelCount]

\* the array regions after the scan, in the order of the y and x loops
regions(img) ==
  LET ys == ScanStarts(img.height, 15, 85)
      xs == ScanStarts(img.width, 25, 75)
  IN [i \in 1..(Len(ys) * Len(xs)) |->
        Region(img, xs[((i - 1) % Len(xs)) + 1],
                    ys[((i - 1) \div Len(xs)) + 1])]

\* region.brightness > 60 && region.brightness < 220 &&
\* region.skinToneRatio > 0.1; the quotient of two counts below 2^40 exceeds
\* the double 0.1 exactly when ten times the first exceeds the second
FaceLike(r) ==
  /\ BigLess(FromInt(60), r.brightness)
  /\ BigLess(r.brightness, FromInt(220))
  /\ 10 * r.skinToneCount > r.pixelCount

\* region.score - distanceFromCenter * 0.1 in units of 1/ScoreUnits, with
\* centerX = width / 2 and centerY = height * 0.4
FinalScore(img, r) ==
  LET dx == 10 * r.x - 5 * img.width
      dy == 10 * r.y - 4 * img.height
  IN r.score
     - Sqrt((dx * dx + dy * dy) * (ScoreUnits \div 100) * (ScoreUnits \div 100))

\* the loop over faceRegions from its i-th entry on
RECURSIVE Best(_, _, _, _)
Best(img, faceRegions, i, b) ==
  IF i > Len(faceRegions) THEN b.bestRegion
  ELSE LET finalScore == FinalScore(img, faceRegions[i])
       IN Best(img, faceRegions, i + 1,
               IF b.unset \/ finalScore > b.bestScore
                 THEN [unset |-> FALSE, bestRegion |-> faceRegions[i],
                       bestScore |-> finalScore]
                 ELSE b)

\* the filter and the choice of the best region, for the array regs
bestRegionY(img, regs) ==
  LET faceRegions == SelectSeq(regs, FaceLike)
  IN IF faceRegions = <<>> THEN Null
     ELSE Best(img, faceRegions, 1,
               [unset |-> TRUE, bestRegion |-> faceRegions[1],
                bestScore |-> 0]).y

\* detectFacePosition(data, width, height): the vertical centre of the best
\* face-like region in px, or Null
detectFacePosition(img) == bestRegionY(img, regions(img))

(* ------------------------ the program state ---------------------------- *)
Cur ==
  [isTracking |-> isTracking, stream |-> stream, animationId |-> animationId,
   calibrationData |-> calibrationData, baselineY |-> baselineY,
   scrollLock |-> scrollLock, frameCount |-> frameCount, smoothedY |-> smoothedY,
   MOVEMENT_THRESHOLD |-> MOVEMENT_THRESHOLD, SCROLL_SPEED |-> SCROLL_SPEED,
   status |-> status, startBtnShown |-> startBtnShown,
   stopBtnShown |-> stopBtnShown, rafQueue |-> rafQueue, timers |-> timers,
   scrolls |-> scrolls, starts |-> starts, liveStreams |-> liveStreams,
   caps |-> caps, frames |-> frames, rvfcQueue |-> rvfcQueue,
   pendingWorkerPromises |-> pendingWorkerPromises,
   workerInbox |-> workerInbox, workerReplies |-> workerReplies,
   startsLeft |-> startsLeft, session |-> session,
   stoppedUpTo |-> stoppedUpTo, pendingLeft |-> pendingLeft,
   faultsLeft |-> faultsLeft, activeLeft |-> activeLeft,
   settingsLeft |-> settingsLeft, frameLimit |-> frameLimit,
   smoothedLog |-> smoothedLog, lastOutcome |-> lastOutcome,
   lockReleased |-> lockReleased, tierLog |-> tierLog,
   imageData |-> imageData]

Becomes(s) ==
  /\ isTracking' = s.isTracking
  /\ stream' = s.stream
  /\ animationId' = s.animationId
  /\ calibrationData' = s.calibrationData
  /\ baselineY' = s.baselineY
  /\ scrollLock' = s.scrollLock
  /\ frameCount' = s.frameCount
  /\ smoothedY' = s.smoothedY
  /\ MOVEMENT_THRESHOLD' = s.MOVEMENT_THRESHOLD
  /\ SCROLL_SPEED' = s.SCROLL_SPEED
  /\ status' = s.status
  /\ startBtnShown' = s.startBtnShown
  /\ stopBtnShown' = s.stopBtnShown
  /\ rafQueue' = s.rafQueue
  /\ timers' = s.timers
  /\ scrolls' = s.scrolls
  /\ starts' = s.starts
  /\ liveStreams' = s.liveStreams
  /\ caps' = s.caps
  /\ frames' = s.frames
  /\ rvfcQueue' = s.rvfcQueue
  /\ pendingWorkerPromises' = s.pendingWorkerPromises
  /\ workerInbox' = s.workerInbox
  /\ workerReplies' = s.workerReplies
  /\ startsLeft' = s.startsLeft
  /\ session' = s.session
  /\ stoppedUpTo' = s.stoppedUpTo
  /\ pendingLeft' = s.pendingLeft
  /\ faultsLeft' = s.faultsLeft
  /\ activeLeft' = s.activeLeft
  /\ settingsLeft' = s.settingsLeft
  /\ frameLimit' = s.frameLimit
  /\ smoothedLog' = s.smoothedLog
  /\ lastOutcome' = s.lastOutcome
  /\ lockReleased' = s.lockReleased
  /\ tierLog' = s.tierLog
  /\ imageData' = s.imageData

Status(type, msg, arg) == [type |-> type, msg |-> msg, arg |-> arg]

updateStatus(s, type, msg, arg) == [s EXCEPT !.status = Status(type, msg, arg)]

TrackingStatus == Status("tracking", "Tracking active", 0)

\* setTimeout(callback, delay).  The list is kept in the order of creation,
\* except that the two timers of one scroll action (created at the same
\* instant) are entered by increasing delay; sess records the session that
\* scheduled the timer.
setTimeout(s, kind, delay) ==
  [s EXCEPT !.timers =
     Append(@, [kind |-> kind, delay |-> delay, sess |-> s.session])]

\* requestAnimationFrame(detectMovement), its id stored in animationId
requestAnimationFrame(s) ==
  [s EXCEPT !.rafQueue = Append([i \in 1..Len(@) |-> FALSE], TRUE),
            !.animationId = Handle]

\* cancelAnimationFrame(animationId)
cancelAnimationFrame(q) ==
  SelectSeq(q, LAMBDA marked : ~marked)

(* ------------------------------ Init ----------------------------------- *)
\* no frame has been through the tier selector yet.  ran: the stages the
\* frame went through ("detector", "raster", "worker", "sync"); found: the
\* tiers that returned a face; result: the faceY the selector yielded
NoTiers == [ran |-> {}, found |-> {}, result |-> Null]

\* the program state after the script has loaded and initializeApp has run
InitProgram ==
  /\ isTracking = FALSE
  /\ stream = Null
  /\ animationId = Null
  /\ calibrationData = <<>>
  /\ baselineY = Null
  /\ scrollLock = FALSE
  /\ frameCount = 0
  /\ smoothedY = Null
  /\ MOVEMENT_THRESHOLD = DefaultThreshold
  /\ SCROLL_SPEED = DefaultSpeed
  /\ status = Status("ready", "Ready", 0)
  /\ startBtnShown = TRUE
  /\ stopBtnShown = FALSE
  /\ rafQueue = <<>>
  /\ timers = <<>>
  /\ scrolls = <<>>
  /\ starts = <<>>
  /\ liveStreams = 0
  /\ frames = <<>>
  /\ rvfcQueue = 0
  /\ pendingWorkerPromises = {}
  /\ workerInbox = <<>>
  /\ workerReplies = <<>>
  /\ session = 0
  /\ stoppedUpTo = 0
  /\ pendingLeft = MaxPendingSamples
  /\ smoothedLog = <<>>
  /\ lastOutcome = "none"
  /\ lockReleased = TRUE
  /\ tierLog = NoTiers
  /\ imageData = NoImage

\* popup.js uses none of requestVideoFrameCallback, FaceDetector and Worker
NoCaps == [rvfc |-> FALSE, detector |-> FALSE, worker |-> FALSE]

\* popup.js
Init ==
  /\ InitProgram
  /\ caps = NoCaps
  /\ startsLeft = MaxStarts
  /\ faultsLeft = MaxFaults
  /\ activeLeft = MaxActiveFrames
  /\ settingsLeft = MaxSettingChanges
  /\ frameLimit = CALIBRATION_FRAMES + MaxActiveFrames

\* hasRequestVideoFrameCallback, faceDetector # null, detectorWorker # null:
\* fixed when the script loads
Capabilities == [rvfc : BOOLEAN, detector : BOOLEAN, worker : BOOLEAN]

\* the worker-enabled driver
InitW ==
  /\ InitProgram
  /\ caps \in Capabilities
  /\ startsLeft = MaxStartsW
  /\ faultsLeft = MaxFaultsW
  /\ activeLeft = 0
  /\ settingsLeft = MaxSettingChangesW
  /\ frameLimit = MaxFrameCountW

(* --------------------------- scroll executor --------------------------- *)
\* executeScroll, from its entry to its first await (chrome.tabs.query)
executeScroll(s, scrollAmount) ==
  [s EXCEPT !.scrolls =
     Append(@, [amount |-> scrollAmount, pc |-> "query", sess |-> s.session])]

\* scrollFailed that reports the error and schedules no status reset
scrollFailed_NoReset(s) == updateStatus(s, "error", "Cannot scroll this page", 0)

\* the catch block of executeScroll
scrollFailed(s) ==
  setTimeout(updateStatus(s, "error", "Cannot scroll this page", 0),
             "scrollErrorReset", ScrollErrorDelay)

(* ----------------------------- detection ------------------------------- *)
\* activeTracking with the sign of the scroll inverted ("natural" scrolling)
activeTracking_Inverted(s, sm) ==
  IF s.baselineY # Null /\ ~s.scrollLock
    THEN LET deltaY == sm - s.baselineY
             threshold == s.MOVEMENT_THRESHOLD
         IN  IF Abs(deltaY) > threshold * Scale
               THEN LET scrollAmount ==
                          ScrollAmount(Abs(deltaY), threshold, s.SCROLL_SPEED)
                        scrollDirection ==
                          IF deltaY > 0 THEN -scrollAmount ELSE scrollAmount
                        direction == IF deltaY > 0 THEN "DOWN" ELSE "UP"
                        s1 == [s EXCEPT !.scrollLock = TRUE]
                        s2 == executeScroll(s1, scrollDirection)
                        s3 == updateStatus(s2, "tracking", "Scrolling " \o direction,
                                           RoundDiv(Abs(deltaY), Scale))
                        s4 == setTimeout(s3, "unlock", UnlockDelay)
                    IN  setTimeout(s4, "statusReset", FeedbackDelay)
               ELSE s
    ELSE s

\* activeTracking that re-centres the baseline on every sample it examines
activeTracking_Recentring(s, sm) ==
  IF s.baselineY # Null /\ ~s.scrollLock
    THEN [s EXCEPT !.baselineY = sm]
    ELSE s

\* the active tracking phase of detectMovement, for the smoothed sample sm
activeTracking(s, sm) ==
  IF s.baselineY # Null /\ ~s.scrollLock
    THEN LET deltaY == sm - s.baselineY
             threshold == s.MOVEMENT_THRESHOLD
         IN  IF Abs(deltaY) > threshold * Scale
               THEN LET scrollAmount ==
                          ScrollAmount(Abs(deltaY), threshold, s.SCROLL_SPEED)
                        scrollDirection ==
                          IF deltaY > 0 THEN scrollAmount ELSE -scrollAmount
                        direction == IF deltaY > 0 THEN "DOWN" ELSE "UP"
                        s1 == [s EXCEPT !.scrollLock = TRUE]
                        s2 == executeScroll(s1, scrollDirection)
                        s3 == updateStatus(s2, "tracking", "Scrolling " \o direction,
                                           RoundDiv(Abs(deltaY), Scale))
                        \* the unlock timer (500) has the earlier deadline
                        s4 == setTimeout(s3, "unlock", UnlockDelay)
                    IN  setTimeout(s4, "statusReset", FeedbackDelay)
               ELSE s
    ELSE s

\* calibrate with the completion test one sample early
calibrate_OffByOne(s, sm) ==
  LET data == Append(s.calibrationData, sm)
      progress == RoundDiv(s.frameCount * 100, CALIBRATION_FRAMES)
      s1 == updateStatus([s EXCEPT !.calibrationData = data],
                         "loading", "Calibrating", progress)
  IN  IF s.frameCount = CALIBRATION_FRAMES - 1
        THEN updateStatus([s1 EXCEPT !.baselineY = Mean(data)],
                          "tracking", "Tracking active", 0)
        ELSE s1

\* calibrate that goes on to evaluate the displacement of the sample that
\* completes the calibration
calibrate_ThenTracks(s, sm) ==
  LET data == Append(s.calibrationData, sm)
      progress == RoundDiv(s.frameCount * 100, CALIBRATION_FRAMES)
      s1 == updateStatus([s EXCEPT !.calibrationData = data],
                         "loading", "Calibrating", progress)
  IN  IF s.frameCount = CALIBRATION_FRAMES
        THEN activeTracking(updateStatus([s1 EXCEPT !.baselineY = Mean(data)],
                                         "tracking", "Tracking active", 0), sm)
        ELSE s1

\* the calibration phase of detectMovement: frameCount <= CALIBRATION_FRAMES
calibrate(s, sm) ==
  LET data == Append(s.calibrationData, sm)
      progress == RoundDiv(s.frameCount * 100, CALIBRATION_FRAMES)
      s1 == updateStatus([s EXCEPT !.calibrationData = data],
                         "loading", "Calibrating", progress)
  IN  IF s.frameCount = CALIBRATION_FRAMES
        THEN updateStatus([s1 EXCEPT !.baselineY = Mean(data)],
                          "tracking", "Tracking active", 0)
        ELSE s1

\* detectMovement for a detected face: smoothing, counting, phase
processSample(s, faceY) ==
  LET sm == IF s.smoothedY = Null THEN faceY ELSE Smooth(s.smoothedY, faceY)
      s1 == [s EXCEPT !.smoothedY = sm,
                      !.frameCount = @ + 1,
                      !.smoothedLog = Append(@, sm),
                      !.pendingLeft = IF s.starts # <<>> THEN @ - 1 ELSE @]
  IN  IF s1.frameCount <= CALIBRATION_FRAMES
        THEN [calibrate(s1, sm) EXCEPT !.lastOutcome = "calibrating"]
        ELSE LET s2 == activeTracking([s1 EXCEPT !.activeLeft = @ - 1], sm)
             IN  IF Len(s2.scrolls) > Len(s1.scrolls)
                   THEN [s2 EXCEPT !.lastOutcome = "fired",
                                   !.lockReleased = FALSE]
                   ELSE [s2 EXCEPT !.lastOutcome = "quiet"]

\* noFace that counts the frame as a sample
noFace_Counting(s) ==
  LET s1 == [s EXCEPT !.frameCount = @ + 1]
  IN  IF s1.frameCount > CALIBRATION_FRAMES
        THEN updateStatus(s1, "error", "No face detected", 0)
        ELSE s1

\* noFace that treats the missing face as fatal and stops the session
noFace_Stops(s) ==
  [updateStatus(s, "error", "No face detected", 0) EXCEPT !.isTracking = FALSE]

\* detectMovement for a frame without a face
noFace(s) ==
  IF s.frameCount > CALIBRATION_FRAMES
    THEN updateStatus(s, "error", "No face detected", 0)
    ELSE s

\* detectMovement that reports a frame source that is not ready as an error
detectMovement_NotReadyIsError(s, in) ==
  IF ~s.isTracking
    THEN s
    ELSE LET s1 == IF ~in.ready \/ in.throws
                     THEN updateStatus(s, "error", "Detection error", 0)
                     ELSE IF in.faceY # Null
                            THEN processSample(s, in.faceY)
                            ELSE noFace(s)
         IN  IF s1.isTracking THEN requestAnimationFrame(s1) ELSE s1

\* One invocation of detectMovement of popup.js.  in.ready: video.readyState
\* >= 2; in.throws: drawImage/getImageData throws; in.faceY: the result of
\* detectFacePosition (Null: no face-like region), in units.
detectMovement(s, in) ==
  IF ~s.isTracking \/ ~in.ready
    THEN IF s.isTracking THEN requestAnimationFrame(s) ELSE s
    ELSE LET s1 == IF in.throws
                     THEN updateStatus(s, "error", "Detection error", 0)
                     ELSE IF in.faceY # Null
                            THEN processSample(s, in.faceY)
                            ELSE noFace(s)
         IN  IF s1.isTracking THEN requestAnimationFrame(s1) ELSE s1

(* ----------------------------- lifecycle ------------------------------- *)
stopTracking(s) ==
  LET s1 == [s EXCEPT !.isTracking = FALSE,
                      !.stoppedUpTo = s.session]
      s2 == IF s1.stream # Null
              THEN [s1 EXCEPT !.liveStreams = @ - 1, !.stream = Null]
              ELSE s1
      s3 == IF s2.animationId # Null
              THEN [s2 EXCEPT !.rafQueue = cancelAnimationFrame(@),
                              !.animationId = Null]
              ELSE s2
      s4 == [s3 EXCEPT !.startBtnShown = TRUE, !.stopBtnShown = FALSE]
  IN  updateStatus(s4, "ready", "Stopped", 0)

\* the catch block of startTracking
startFailed(s) ==
  stopTracking(updateStatus(s, "error", "Failed to access camera", 0))

\* resetTracking without the reset of calibrationData
resetTracking_KeepsData(s) ==
  LET s1 == [s EXCEPT !.isTracking = TRUE,
                      !.frameCount = 0,
                      !.baselineY = Null,
                      !.smoothedY = Null,
                      !.scrollLock = FALSE,
                      !.session = @ + 1,
                      !.smoothedLog = <<>>,
                      !.lastOutcome = "none"]
      s2 == [s1 EXCEPT !.startBtnShown = FALSE, !.stopBtnShown = TRUE]
  IN  updateStatus(s2, "loading", "Calibrating", 0)

\* resetTracking without the reset of smoothedY
resetTracking_KeepsSmoothed(s) ==
  LET s1 == [s EXCEPT !.isTracking = TRUE,
                      !.frameCount = 0,
                      !.calibrationData = <<>>,
                      !.baselineY = Null,
                      !.scrollLock = FALSE,
                      !.session = @ + 1,
                      !.smoothedLog = <<>>,
                      !.lastOutcome = "none"]
      s2 == [s1 EXCEPT !.startBtnShown = FALSE, !.stopBtnShown = TRUE]
  IN  updateStatus(s2, "loading", "Calibrating", 0)

\* startTracking: "Reset tracking state", "Update UI" and the status
resetTracking(s) ==
  LET s1 == [s EXCEPT !.isTracking = TRUE,
                      !.frameCount = 0,
                      !.calibrationData = <<>>,
                      !.baselineY = Null,
                      !.smoothedY = Null,
                      !.scrollLock = FALSE,
                      !.session = @ + 1,
                      !.smoothedLog = <<>>,
                      !.lastOutcome = "none"]
      s2 == [s1 EXCEPT !.startBtnShown = FALSE, !.stopBtnShown = TRUE]
  IN  updateStatus(s2, "loading", "Calibrating", 0)

\* startTracking of popup.js from "Reset tracking state" to its end,
\* detectMovement() included
startCompleted(s, in) == detectMovement(resetTracking(s), in)

(* ------------------- the worker-enabled frame driver ------------------- *)
\* Math.random().toString(36).slice(2): an id no live submission carries
FreshId(s) ==
  LET live == s.pendingWorkerPromises
              \cup {s.workerInbox[i] : i \in 1..Len(s.workerInbox)}
              \cup {s.workerReplies[i].id : i \in 1..Len(s.workerReplies)}
  IN  CHOOSE n \in 1..(Cardinality(live) + 1) :
        n \notin live /\ \A m \in 1..(n - 1) : m \in live

\* the end of detectMovement ("Continue loop only if we are using the rAF
\* fallback") and, under requestVideoFrameCallback, the end of
\* handleVideoFrame
completeFrame(s) ==
  IF s.isTracking
    THEN IF s.caps.rvfc
           THEN [s EXCEPT !.rvfcQueue = @ + 1]
           ELSE requestAnimationFrame(s)
    ELSE s

\* detectMovement from "if (faceY !== null)" to the end of the try block
processResult(s, faceY) ==
  IF faceY # Null THEN processSample(s, faceY) ELSE noFace(s)

\* the tier selector has yielded faceY for a frame that went through the
\* stages ran, of which the tiers found returned a face: detectMovement from
\* "if (faceY !== null)" to its end
selected(s, ran, found, faceY) ==
  completeFrame(processResult(
    [s EXCEPT !.tierLog = [ran |-> ran, found |-> found, result |-> faceY]],
    faceY))

\* detectFaceInWorker with a worker, for the invocation fr = [sess, ran]: the
\* resolver is stored and the pixel buffer is posted (transferred);
\* detectMovement awaits the reply
submitToWorker(s, fr) ==
  LET id == FreshId(s)
  IN  [s EXCEPT !.pendingWorkerPromises = @ \cup {id},
                !.workerInbox = Append(@, id),
                !.frames = Append(@, [pc |-> "worker", id |-> id,
                                      sess |-> fr.sess,
                                      ran |-> fr.ran \cup {"worker"}])]

\* a variant of detectFaceInWorker that posts whether or not a worker exists
detectFaceInWorker_AlwaysPosts(s, fr) == submitToWorker(s, fr)

\* detectFaceInWorker: without a worker the promise resolves null at once
\* (nothing stored, nothing posted: the state is left as it is)
detectFaceInWorker(s, fr) ==
  IF ~s.caps.worker THEN s ELSE submitToWorker(s, fr)

\* a variant of the continuation that scans synchronously whenever the
\* worker found nothing
workerResolved_SyncOnNone(s, ran, faceY, syncY) ==
  IF faceY = Null
    THEN selected(s, ran \cup {"sync"},
                  IF syncY # Null THEN {"sync"} ELSE {}, syncY)
    ELSE selected(s, ran, {"worker"}, faceY)

\* detectMovement after "await detectFaceInWorker(...)" has yielded faceY:
\* the synchronous detectFacePosition (it returns syncY) runs only if faceY
\* is null and there is no worker
workerResolved(s, ran, faceY, syncY) ==
  IF faceY = Null /\ ~s.caps.worker
    THEN selected(s, ran \cup {"sync"},
                  IF syncY # Null THEN {"sync"} ELSE {}, syncY)
    ELSE selected(s, ran, IF faceY # Null THEN {"worker"} ELSE {}, faceY)

\* detectMovement, "Manual pixel-based fallback", for the invocation
\* fr = [sess, ran].  in.throws: drawImage/getImageData throws; in.faceY: what
\* the synchronous detectFacePosition returns.  Without a worker
\* detectFaceInWorker resolves null at once and the continuation runs before
\* any other event.
manualDetection(s, fr, in) ==
  IF in.throws
    THEN completeFrame(updateStatus(
           [s EXCEPT !.tierLog = [ran |-> fr.ran \cup {"raster"},
                                  found |-> {}, result |-> Null]],
           "error", "Detection error", 0))
    ELSE LET ran == fr.ran \cup {"raster"}
             s1 == detectFaceInWorker(s, [fr EXCEPT !.ran = ran])
         IN  IF Len(s1.frames) > Len(s.frames)
               THEN s1
               ELSE workerResolved(s1, ran, Null, in.faceY)

\* a variant of the FaceDetector branch that rasterizes the frame although
\* the detector found a face
detectorSettled_Rasterizes(s, fr, faces, in) ==
  IF faces # Null
    THEN selected(s, fr.ran \cup {"raster"}, {"detector"}, faces)
    ELSE manualDetection(s, fr, in)

\* detectMovement after "await faceDetector.detect(video)" has settled, for
\* the invocation fr.  faces: the centre of the first face in canvas
\* coordinates, Null when no face was found or detect() rejected
detectorSettled(s, fr, faces, in) ==
  IF faces # Null
    THEN selected(s, fr.ran, {"detector"}, faces)
    ELSE manualDetection(s, fr, in)

\* detectMovement from its entry to its first suspension or to its end
enterDetect(s, in) ==
  IF ~s.isTracking
    THEN s
    ELSE IF s.caps.detector
           THEN [s EXCEPT !.frames =
                   Append(@, [pc |-> "detect", id |-> 0, sess |-> s.session,
                              ran |-> {"detector"}])]
           ELSE manualDetection(s, [sess |-> s.session, ran |-> {}], in)

\* startDetectionLoop
startDetectionLoop(s, in) ==
  IF s.caps.rvfc
    THEN [s EXCEPT !.rvfcQueue = @ + 1]
    ELSE enterDetect(s, in)

\* startTracking of the worker-enabled driver from "Reset tracking state" to
\* its end
startCompletedW(s, in) == startDetectionLoop(resetTracking(s), in)

(* ------------------------------ inputs --------------------------------- *)
\* a startTracking invocation has assigned video.srcObject and the video has
\* not loaded yet: video.readyState is 0
VideoLoading == \E i \in 1..Len(starts) : starts[i].pc = "video" /\ starts[i].owner

\* what detectFacePosition can return on the frame that would be detected
\* sample number fc + 1 of the session, in units
FaceInputs(fc) ==
  IF \/ fc >= frameLimit
     \/ fc >= CALIBRATION_FRAMES /\ activeLeft = 0
     \/ starts # <<>> /\ pendingLeft = 0
     \/ Len(scrolls) > MaxScrollsInFlight
    THEN {Null}
  ELSE IF fc >= SettleFrames /\ fc < CALIBRATION_FRAMES
    THEN {Null, RawValues[2] * Scale}
  ELSE {Null} \cup {RawValues[i] * Scale : i \in 1..Len(RawValues)}

FrameInputs(fc) ==
  {[ready |-> FALSE, throws |-> FALSE, faceY |-> Null]}
  \cup (IF VideoLoading THEN {}
        ELSE (IF faultsLeft > 0
                THEN {[ready |-> TRUE, throws |-> TRUE, faceY |-> Null]}
                ELSE {})
             \cup {[ready |-> TRUE, throws |-> FALSE, faceY |-> y] :
                     y \in FaceInputs(fc)})

\* the inputs of the detectMovement() call that ends startTracking: the video
\* has just started playing
StartInputs ==
  {in \in [ready : BOOLEAN, throws : BOOLEAN,
           faceY : {Null} \cup {RawValues[i] * Scale : i \in 1..Len(RawValues)}] :
     /\ in.faceY # Null => in.ready /\ ~in.throws
     /\ in.throws => in.ready /\ faultsLeft > 0
     /\ in.faceY # Null => SettleFrames > 0 \/ in.faceY = RawValues[2] * Scale
     /\ in.faceY # Null => Len(starts) = 1 \/ pendingLeft > 0
     /\ in.faceY # Null => Len(scrolls) <= MaxScrollsInFlight
     /\ in.faceY # Null => frameLimit > 0}

\* the environment's failures are counted
Fault(s) == [s EXCEPT !.faultsLeft = @ - 1]

FrameFault(s, in) == IF in.ready /\ in.throws THEN Fault(s) ELSE s

(* ------------------------------ actions -------------------------------- *)
\* click on the start button: startTracking up to its first await
StartClick ==
  /\ startBtnShown
  /\ startsLeft > 0
  /\ Becomes([updateStatus(Cur, "loading", "Requesting camera access", 0)
                EXCEPT !.starts = Append(@, [pc |-> "permission", tried |-> 0,
                                            owner |-> FALSE]),
                       !.startsLeft = @ - 1])

\* navigator.permissions.query settles (either way): the first getUserMedia
StartPermissionSettled ==
  \E i \in 1..Len(starts) :
    /\ starts[i].pc = "permission"
    /\ Becomes([Cur EXCEPT !.starts[i].pc = "getUserMedia"])

\* getUserMedia resolves: stream and video.srcObject are assigned, the
\* handlers video.onloadedmetadata and video.onerror are set (replacing
\* those of an earlier invocation), the video promise is awaited
StartStreamObtained ==
  \E i \in 1..Len(starts) :
    /\ starts[i].pc = "getUserMedia"
    /\ Becomes([Cur EXCEPT
         !.stream = Handle,
         !.liveStreams = @ + 1,
         !.starts = [j \in 1..Len(@) |->
                       IF j = i THEN [@[j] EXCEPT !.pc = "video", !.owner = TRUE]
                                ELSE [@[j] EXCEPT !.owner = FALSE]]])

\* getUserMedia rejects: the next constraint, or the catch block after the last
StartConstraintFailed ==
  \E i \in 1..Len(starts) :
    /\ starts[i].pc = "getUserMedia"
    /\ starts[i].tried = 0 => faultsLeft > 0
    /\ LET s == IF starts[i].tried = 0 THEN Fault(Cur) ELSE Cur
       IN  IF starts[i].tried + 1 < NumConstraints
             THEN Becomes([s EXCEPT !.starts[i].tried = @ + 1])
             ELSE Becomes(startFailed([s EXCEPT !.starts = RemoveAt(@, i)]))

\* the video promise resolves (the invocation's onloadedmetadata handler
\* ran and play() resolved) and the dimensions are valid
StartVideoPlaying ==
  \E i \in 1..Len(starts) :
    /\ starts[i].pc = "video"
    /\ starts[i].owner
    /\ LET s == [Cur EXCEPT !.starts = RemoveAt(@, i)]
       IN  \E in \in StartInputs :
             Becomes(startCompleted(FrameFault(s, in), in))

\* the video promise rejects (error, play refused, or the 8 s timeout, the
\* only way left once the handlers have been replaced) or the dimensions are 0
StartVideoFailed ==
  \E i \in 1..Len(starts) :
    /\ starts[i].pc = "video"
    /\ starts[i].owner => faultsLeft > 0
    /\ LET s == [Cur EXCEPT !.starts = RemoveAt(@, i)]
       IN  Becomes(startFailed(IF starts[i].owner THEN Fault(s) ELSE s))

\* click on the stop button
StopClick ==
  /\ stopBtnShown
  /\ Becomes(stopTracking(Cur))

\* a requestAnimationFrame callback runs detectMovement
Frame ==
  /\ rafQueue # <<>>
  /\ \E in \in FrameInputs(frameCount) :
       Becomes(detectMovement(
                 FrameFault([Cur EXCEPT !.rafQueue = Tail(@)], in), in))

\* a timer may fire when no pending timer has an earlier deadline
TimerDue(i) ==
  \A j \in 1..(i - 1) : timers[j].delay > timers[i].delay

restoreTracking(s) ==
  IF s.isTracking /\ s.frameCount > CALIBRATION_FRAMES
    THEN updateStatus(s, "tracking", "Tracking active", 0)
    ELSE s

\* a lock-release timer whose callback leaves the lock set
UnlockTimer_KeepsLock ==
  \E i \in 1..Len(timers) :
    /\ timers[i].kind = "unlock"
    /\ TimerDue(i)
    /\ Becomes([Cur EXCEPT !.timers = RemoveAt(@, i), !.lockReleased = TRUE])

\* the lock-release timer of a scroll action
UnlockTimer ==
  \E i \in 1..Len(timers) :
    /\ timers[i].kind = "unlock"
    /\ TimerDue(i)
    /\ Becomes([Cur EXCEPT !.timers = RemoveAt(@, i), !.scrollLock = FALSE,
                            !.lockReleased = TRUE])

\* the status-reset timer of a scroll action
StatusResetTimer ==
  \E i \in 1..Len(timers) :
    /\ timers[i].kind = "statusReset"
    /\ TimerDue(i)
    /\ Becomes(restoreTracking([Cur EXCEPT !.timers = RemoveAt(@, i)]))

\* the status-reset timer of a failed scroll
ScrollErrorResetTimer ==
  \E i \in 1..Len(timers) :
    /\ timers[i].kind = "scrollErrorReset"
    /\ TimerDue(i)
    /\ Becomes(restoreTracking([Cur EXCEPT !.timers = RemoveAt(@, i)]))

\* chrome.tabs.query resolves with a tab: chrome.scripting.executeScript is called
ScrollTabFound ==
  \E i \in 1..Len(scrolls) :
    /\ scrolls[i].pc = "query"
    /\ Becomes([Cur EXCEPT !.scrolls[i].pc = "script"])

\* chrome.tabs.query finds no tab
ScrollNoTab ==
  \E i \in 1..Len(scrolls) :
    /\ scrolls[i].pc = "query"
    /\ faultsLeft > 0
    /\ Becomes(scrollFailed(Fault([Cur EXCEPT !.scrolls = RemoveAt(@, i)])))

\* executeScript resolves
ScrollDone ==
  \E i \in 1..Len(scrolls) :
    /\ scrolls[i].pc = "script"
    /\ Becomes([Cur EXCEPT !.scrolls = RemoveAt(@, i)])

\* executeScript rejects
ScrollRejected ==
  \E i \in 1..Len(scrolls) :
    /\ scrolls[i].pc = "script"
    /\ faultsLeft > 0
    /\ Becomes(scrollFailed(Fault([Cur EXCEPT !.scrolls = RemoveAt(@, i)])))

\* input event of the sensitivity slider
SetSensitivity ==
  \E v \in ThresholdValues :
    /\ v # MOVEMENT_THRESHOLD
    /\ settingsLeft > 0
    /\ Becomes([Cur EXCEPT !.MOVEMENT_THRESHOLD = v, !.settingsLeft = @ - 1])

\* input event of the scroll speed slider
SetScrollSpeed ==
  \E v \in SpeedValues :
    /\ v # SCROLL_SPEED
    /\ settingsLeft > 0
    /\ Becomes([Cur EXCEPT !.SCROLL_SPEED = v, !.settingsLeft = @ - 1])

Next ==
  \/ StartClick
  \/ StartPermissionSettled
  \/ StartStreamObtained
  \/ StartConstraintFailed
  \/ StartVideoPlaying
  \/ StartVideoFailed
  \/ StopClick
  \/ Frame
  \/ UnlockTimer
  \/ StatusResetTimer
  \/ ScrollErrorResetTimer
  \/ ScrollTabFound
  \/ ScrollNoTab
  \/ ScrollDone
  \/ ScrollRejected
  \/ SetSensitivity
  \/ SetScrollSpeed

Spec == Init /\ [][Next]_vars

(* ----------------- actions of the worker-enabled driver ---------------- *)
\* the inputs of the manual detection of one frame
ManualInputs ==
  (IF faultsLeft > 0 THEN {[throws |-> TRUE, faceY |-> Null]} ELSE {})
  \cup {[throws |-> FALSE, faceY |-> y] : y \in FaceInputs(frameCount)}

\* the manual detection of the frame will run in this step and its inputs
\* matter
ManualFault(s, in) == IF in.throws THEN Fault(s) ELSE s

\* click on the start button: startTracking up to its await of getUserMedia
StartClickW ==
  /\ startBtnShown
  /\ startsLeft > 0
  /\ Becomes([updateStatus(Cur, "loading", "Requesting camera access", 0)
                EXCEPT !.starts = Append(@, [pc |-> "getUserMedia", tried |-> 0,
                                            owner |-> FALSE]),
                       !.startsLeft = @ - 1])

\* getUserMedia rejects: the catch block
StartCameraFailedW ==
  \E i \in 1..Len(starts) :
    /\ starts[i].pc = "getUserMedia"
    /\ faultsLeft > 0
    /\ Becomes(startFailed(Fault([Cur EXCEPT !.starts = RemoveAt(@, i)])))

\* the video promise resolves: the state reset and startDetectionLoop
StartVideoPlayingW ==
  \E i \in 1..Len(starts) :
    /\ starts[i].pc = "video"
    /\ starts[i].owner
    /\ LET s == [Cur EXCEPT !.starts = RemoveAt(@, i)]
       IN  IF caps.rvfc \/ caps.detector
             THEN Becomes(startCompletedW(s, [throws |-> FALSE, faceY |-> Null]))
             ELSE \E in \in ManualInputs :
                    Becomes(startCompletedW(ManualFault(s, in), in))

\* a requestVideoFrameCallback callback runs handleVideoFrame
VideoFrame ==
  /\ rvfcQueue > 0
  /\ LET s == [Cur EXCEPT !.rvfcQueue = @ - 1]
     IN  IF ~isTracking \/ caps.detector
           THEN Becomes(enterDetect(s, [throws |-> FALSE, faceY |-> Null]))
           ELSE \E in \in ManualInputs :
                  Becomes(enterDetect(ManualFault(s, in), in))

\* a requestAnimationFrame callback runs detectMovement (the fallback loop)
AnimationFrameW ==
  /\ rafQueue # <<>>
  /\ LET s == [Cur EXCEPT !.rafQueue = Tail(@)]
     IN  IF ~isTracking \/ caps.detector
           THEN Becomes(enterDetect(s, [throws |-> FALSE, faceY |-> Null]))
           ELSE \E in \in ManualInputs :
                  Becomes(enterDetect(ManualFault(s, in), in))

\* faceDetector.detect(video) settles for a suspended detectMovement: with a
\* face (its centre converted to canvas coordinates), or with no face or a
\* rejection, which both leave faceY null and lead to the manual detection
DetectorResult ==
  \E i \in 1..Len(frames) :
    /\ frames[i].pc = "detect"
    /\ LET s == [Cur EXCEPT !.frames = RemoveAt(@, i)]
           fr == [sess |-> frames[i].sess, ran |-> frames[i].ran]
       IN  \/ \E y \in FaceInputs(frameCount) \ {Null} :
                Becomes(detectorSettled(s, fr, y,
                                        [throws |-> FALSE, faceY |-> Null]))
           \/ \E in \in ManualInputs :
                Becomes(detectorSettled(ManualFault(s, in), fr, Null, in))

\* detectorWorker.js, self.onmessage: the worker scores a buffer and posts
\* the result
WorkerScores ==
  /\ workerInbox # <<>>
  /\ \E y \in FaceInputs(frameCount) :
       Becomes([Cur EXCEPT !.workerInbox = Tail(@),
                           !.workerReplies =
                              Append(@, [id |-> Head(workerInbox), faceY |-> y])])

\* detectorWorker.js fails on a message (the script did not load, or
\* self.onmessage throws while scoring): nothing is posted
WorkerFails ==
  /\ workerInbox # <<>>
  /\ faultsLeft > 0
  /\ Becomes(Fault([Cur EXCEPT !.workerInbox = Tail(@)]))

\* detectorWorker.onmessage: the resolver stored under the id is called and
\* deleted, and the detectMovement invocation that awaits it continues
WorkerReply ==
  /\ workerReplies # <<>>
  /\ LET msg == Head(workerReplies)
         s == [Cur EXCEPT !.workerReplies = Tail(@)]
     IN  IF msg.id \in pendingWorkerPromises
           THEN \E i \in 1..Len(frames), y \in FaceInputs(frameCount) :
                  /\ frames[i].pc = "worker"
                  /\ frames[i].id = msg.id
                  /\ Becomes(workerResolved(
                       [s EXCEPT !.pendingWorkerPromises = @ \ {msg.id},
                                 !.frames = RemoveAt(@, i)],
                       frames[i].ran, msg.faceY, y))
           ELSE Becomes(s)

NextW ==
  \/ StartClickW
  \/ StartStreamObtained
  \/ StartCameraFailedW
  \/ StartVideoPlayingW
  \/ StartVideoFailed
  \/ StopClick
  \/ VideoFrame
  \/ AnimationFrameW
  \/ DetectorResult
  \/ WorkerScores
  \/ WorkerFails
  \/ WorkerReply
  \/ SetSensitivity
  \/ SetScrollSpeed

SpecW == InitW /\ [][NextW]_vars

(* ------------------- runs of the gesture translator -------------------- *)
\* popup.js just after a calibration on CALIBRATION_FRAMES equal samples
\* (baselineY is their value), with the sliders in any of the positions
\* ThresholdValuesT, SpeedValuesT
InitT ==
  /\ isTracking = TRUE
  /\ stream = Handle
  /\ animationId = Handle
  /\ calibrationData = [i \in 1..CALIBRATION_FRAMES |-> BaselineT * Scale]
  /\ baselineY = Mean(calibrationData)
  /\ scrollLock = FALSE
  /\ frameCount = CALIBRATION_FRAMES
  /\ smoothedY = BaselineT * Scale
  /\ MOVEMENT_THRESHOLD \in ThresholdValuesT
  /\ SCROLL_SPEED \in SpeedValuesT
  /\ status = TrackingStatus
  /\ startBtnShown = FALSE
  /\ stopBtnShown = TRUE
  /\ rafQueue = <<TRUE>>
  /\ timers = <<>>
  /\ scrolls = <<>>
  /\ starts = <<>>
  /\ liveStreams = 1
  /\ caps = NoCaps
  /\ frames = <<>>
  /\ rvfcQueue = 0
  /\ pendingWorkerPromises = {}
  /\ workerInbox = <<>>
  /\ workerReplies = <<>>
  /\ startsLeft = 0
  /\ session = 1
  /\ stoppedUpTo = 0
  /\ pendingLeft = 0
  /\ faultsLeft = 0
  /\ activeLeft = MaxActiveFramesT
  /\ settingsLeft = 0
  /\ frameLimit = CALIBRATION_FRAMES + MaxActiveFramesT
  /\ smoothedLog = calibrationData
  /\ lastOutcome = "calibrating"
  /\ lockReleased = TRUE
  /\ tierLog = NoTiers
  /\ imageData = NoImage

\* a requestAnimationFrame callback runs detectMovement on a frame with a
\* face at any of the positions RawValuesT
FrameT ==
  /\ rafQueue # <<>>
  /\ activeLeft > 0
  /\ \E y \in RawValuesT :
       Becomes(detectMovement([Cur EXCEPT !.rafQueue = Tail(@)],
                              [ready |-> TRUE, throws |-> FALSE,
                               faceY |-> y * Scale]))

NextT ==
  \/ FrameT
  \/ UnlockTimer
  \/ StatusResetTimer
  \/ ScrollTabFound
  \/ ScrollDone

SpecT == InitT /\ [][NextT]_vars

(* ----------------- runs of a calibrated session, fair timers ----------- *)
\* popup.js just after the first session has calibrated on
\* CALIBRATION_FRAMES equal samples at the straight-ahead position
InitL ==
  /\ isTracking = TRUE
  /\ stream = Handle
  /\ animationId = Handle
  /\ calibrationData = [i \in 1..CALIBRATION_FRAMES |-> RawValues[2] * Scale]
  /\ baselineY = Mean(calibrationData)
  /\ scrollLock = FALSE
  /\ frameCount = CALIBRATION_FRAMES
  /\ smoothedY = RawValues[2] * Scale
  /\ MOVEMENT_THRESHOLD = DefaultThreshold
  /\ SCROLL_SPEED = DefaultSpeed
  /\ status = TrackingStatus
  /\ startBtnShown = FALSE
  /\ stopBtnShown = TRUE
  /\ rafQueue = <<TRUE>>
  /\ timers = <<>>
  /\ scrolls = <<>>
  /\ starts = <<>>
  /\ liveStreams = 1
  /\ caps = NoCaps
  /\ frames = <<>>
  /\ rvfcQueue = 0
  /\ pendingWorkerPromises = {}
  /\ workerInbox = <<>>
  /\ workerReplies = <<>>
  /\ startsLeft = MaxStartsL
  /\ session = 1
  /\ stoppedUpTo = 0
  /\ pendingLeft = MaxPendingSamples
  /\ faultsLeft = MaxFaultsL
  /\ activeLeft = MaxActiveFramesL
  /\ settingsLeft = MaxSettingChangesL
  /\ frameLimit = CALIBRATION_FRAMES + MaxActiveFramesL
  /\ smoothedLog = calibrationData
  /\ lastOutcome = "calibrating"
  /\ lockReleased = TRUE
  /\ tierLog = NoTiers
  /\ imageData = NoImage

\* the popup stays open: a pending setTimeout callback is run once it is due
\* (the event loop runs timer tasks whatever the frame callbacks do)
SpecL ==
  /\ InitL
  /\ [][Next]_vars
  /\ WF_vars(UnlockTimer)
  /\ WF_vars(StatusResetTimer)
  /\ WF_vars(ScrollErrorResetTimer)

(* ------------------- runs across the end of calibration --------------- *)
\* popup.js after CALIBRATION_FRAMES - 1 equal samples at BaselineT, with the
\* sliders in any of the positions ThresholdValuesT, SpeedValuesT: one
\* calibration sample is missing
InitC ==
  /\ isTracking = TRUE
  /\ stream = Handle
  /\ animationId = Handle
  /\ calibrationData = [i \in 1..(CALIBRATION_FRAMES - 1) |-> BaselineT * Scale]
  /\ baselineY = Null
  /\ scrollLock = FALSE
  /\ frameCount = CALIBRATION_FRAMES - 1
  /\ smoothedY = BaselineT * Scale
  /\ MOVEMENT_THRESHOLD \in ThresholdValuesT
  /\ SCROLL_SPEED \in SpeedValuesT
  /\ status = Status("loading", "Calibrating",
                     RoundDiv((CALIBRATION_FRAMES - 1) * 100, CALIBRATION_FRAMES))
  /\ startBtnShown = FALSE
  /\ stopBtnShown = TRUE
  /\ rafQueue = <<TRUE>>
  /\ timers = <<>>
  /\ scrolls = <<>>
  /\ starts = <<>>
  /\ liveStreams = 1
  /\ caps = NoCaps
  /\ frames = <<>>
  /\ rvfcQueue = 0
  /\ pendingWorkerPromises = {}
  /\ workerInbox = <<>>
  /\ workerReplies = <<>>
  /\ startsLeft = 0
  /\ session = 1
  /\ stoppedUpTo = 0
  /\ pendingLeft = 0
  /\ faultsLeft = 0
  /\ activeLeft = MaxActiveFramesT
  /\ settingsLeft = 0
  /\ frameLimit = CALIBRATION_FRAMES + MaxActiveFramesT
  /\ smoothedLog = calibrationData
  /\ lastOutcome = "calibrating"
  /\ lockReleased = TRUE
  /\ tierLog = NoTiers
  /\ imageData = NoImage

SpecC == InitC /\ [][NextT]_vars

(* --------------------- runs of the temporal filter --------------------- *)
\* popup.js when startTracking has just completed and its detectMovement()
\* call has found no face: tracking, no sample yet, the first frame callback
\* requested
InitS ==
  /\ isTracking = TRUE
  /\ stream = Handle
  /\ animationId = Handle
  /\ calibrationData = <<>>
  /\ baselineY = Null
  /\ scrollLock = FALSE
  /\ frameCount = 0
  /\ smoothedY = Null
  /\ MOVEMENT_THRESHOLD = DefaultThreshold
  /\ SCROLL_SPEED = DefaultSpeed
  /\ status = Status("loading", "Calibrating", 0)
  /\ startBtnShown = FALSE
  /\ stopBtnShown = TRUE
  /\ rafQueue = <<TRUE>>
  /\ timers = <<>>
  /\ scrolls = <<>>
  /\ starts = <<>>
  /\ liveStreams = 1
  /\ caps = NoCaps
  /\ frames = <<>>
  /\ rvfcQueue = 0
  /\ pendingWorkerPromises = {}
  /\ workerInbox = <<>>
  /\ workerReplies = <<>>
  /\ startsLeft = 0
  /\ session = 1
  /\ stoppedUpTo = 0
  /\ pendingLeft = 0
  /\ faultsLeft = 0
  /\ activeLeft = 0
  /\ settingsLeft = 0
  /\ frameLimit = MaxSamplesS
  /\ smoothedLog = <<>>
  /\ lastOutcome = "none"
  /\ lockReleased = TRUE
  /\ tierLog = NoTiers
  /\ imageData = NoImage

\* a requestAnimationFrame callback runs detectMovement on a frame with a
\* face at any of the positions RawValuesS
FrameS ==
  /\ rafQueue # <<>>
  /\ frameCount < frameLimit
  /\ \E y \in RawValuesS :
       Becomes(detectMovement([Cur EXCEPT !.rafQueue = Tail(@)],
                              [ready |-> TRUE, throws |-> FALSE,
                               faceY |-> y * Scale]))

NextS == FrameS

SpecS == InitS /\ [][NextS]_vars

(* ---------------------- runs of the region scorer ---------------------- *)
\* the colours of the buffers: black, white, mid grey, skin tones of middle
\* brightness, and skin tones whose brightness is 60 or 220
Palette ==
  {<<0, 0, 0>>, <<255, 255, 255>>, <<60, 60, 60>>,
   <<200, 120, 100>>, <<120, 60, 50>>, <<230, 200, 180>>,
   <<101, 43, 40>>, <<249, 233, 77>>, <<253, 223, 118>>, <<250, 202, 234>>}

\* a buffer of two bands of one colour each
Banded(top, bottom) ==
  [width |-> BufferWidth, height |-> BufferHeight,
   rows |-> [y \in 1..BufferHeight |-> IF y - 1 < BandSplit THEN top ELSE bottom]]

BufferInputs == {Banded(top, bottom) : top \in Palette, bottom \in Palette}

\* popup.js when startTracking has just completed and its detectMovement()
\* call was not ready: tracking, no sample yet, the first frame callback
\* requested, the video showing one of BufferInputs
InitR ==
  /\ isTracking = TRUE
  /\ stream = Handle
  /\ animationId = Handle
  /\ calibrationData = <<>>
  /\ baselineY = Null
  /\ scrollLock = FALSE
  /\ frameCount = 0
  /\ smoothedY = Null
  /\ MOVEMENT_THRESHOLD = DefaultThreshold
  /\ SCROLL_SPEED = DefaultSpeed
  /\ status = Status("loading", "Calibrating", 0)
  /\ startBtnShown = FALSE
  /\ stopBtnShown = TRUE
  /\ rafQueue = <<TRUE>>
  /\ timers = <<>>
  /\ scrolls = <<>>
  /\ starts = <<>>
  /\ liveStreams = 1
  /\ caps = NoCaps
  /\ frames = <<>>
  /\ rvfcQueue = 0
  /\ pendingWorkerPromises = {}
  /\ workerInbox = <<>>
  /\ workerReplies = <<>>
  /\ startsLeft = 0
  /\ session = 1
  /\ stoppedUpTo = 0
  /\ pendingLeft = 0
  /\ faultsLeft = 0
  /\ activeLeft = 0
  /\ settingsLeft = 0
  /\ frameLimit = MaxSamplesR
  /\ smoothedLog = <<>>
  /\ lastOutcome = "none"
  /\ lockReleased = TRUE
  /\ tierLog = NoTiers
  /\ imageData \in BufferInputs

\* a requestAnimationFrame callback runs detectMovement, which reads the
\* frame into imageData and passes it to detectFacePosition
FrameR ==
  /\ rafQueue # <<>>
  /\ frameCount < frameLimit
  /\ LET faceY == detectFacePosition(imageData)
     IN Becomes(detectMovement([Cur EXCEPT !.rafQueue = Tail(@)],
                               [ready |-> TRUE, throws |-> FALSE,
                                faceY |-> IF faceY = Null THEN Null
                                          ELSE faceY * Scale]))

NextR == FrameR

SpecR == InitR /\ [][NextR]_vars

(* ------------------------------ properties ----------------------------- *)
\* a frame callback processes a detected sample of the running session
SampleStep == frameCount' = frameCount + 1 /\ session' = session

\* the step issues a scroll action (calls executeScroll)
Fired == Len(scrolls') > Len(scrolls)

\* a lock-release timer is pending; timers of equal delay fire in the order
\* of their creation, so the timer of the latest scroll action is pending
\* exactly when any is
UnlockPending == \E i \in 1..Len(timers) : timers[i].kind = "unlock"

\* the smoothed sample is displaced from the baseline by more than the
\* sensitivity threshold
Exceeds == /\ baselineY # Null
           /\ smoothedY # Null
           /\ Abs(smoothedY - baselineY) > MOVEMENT_THRESHOLD * Scale

\* C1 (as stated): once a scroll action has fired and set scrollLock, no
\* further scroll action fires until a lock-release timer has cleared the
\* lock: every scroll action but the first of the run fires after a
\* lock-release timer that followed the action before it.
C1_Original == [][Fired => lockReleased]_vars

\* C2 (as stated): of two consecutive detected samples that both exceed the
\* threshold and both arrive before the lock-release timer of the first
\* one's action has fired, only the first issues a scroll action; an exceeding
\* sample that arrives when no lock-release timer is pending issues one.
C2_Original ==
  [][SampleStep /\ frameCount >= CALIBRATION_FRAMES /\ Exceeds'
       => /\ lastOutcome = "fired" /\ UnlockPending => ~Fired
          /\ ~UnlockPending => Fired]_vars

\* a detected sample is processed, by a frame callback or by the
\* detectMovement() call that ends startTracking
DetectedStep ==
  \/ SampleStep
  \/ session' # session /\ frameCount' = 1

\* the first CALIBRATION_FRAMES smoothed samples since the last state reset
CalibrationSamples == SubSeq(smoothedLog, 1, CALIBRATION_FRAMES)

AllEqual(q) == \A i \in 1..Len(q) : q[i] = q[1]

\* C3: whenever baselineY is non-null, CALIBRATION_FRAMES smoothed samples
\* have been produced since the last state reset of startTracking, they are
\* the calibration data, and baselineY is their arithmetic mean (to the
\* nearest fixed-point unit): no sample of an earlier session and no later
\* sample contributes.
C3_BaselineIsSessionMean ==
  baselineY # Null =>
    /\ Len(smoothedLog) >= CALIBRATION_FRAMES
    /\ calibrationData = CalibrationSamples
    /\ 2 * Abs(CALIBRATION_FRAMES * baselineY - SumSeq(CalibrationSamples))
         <= CALIBRATION_FRAMES

\* C3 witness: a second session has calibrated on samples that are not all
\* equal and has gone on to the active phase
C3_Witness ==
  /\ session = 2
  /\ isTracking
  /\ baselineY # Null
  /\ frameCount > CALIBRATION_FRAMES
  /\ ~AllEqual(CalibrationSamples)

\* C4: calibration completes exactly on the 90th detected sample of a
\* session.  After each of the samples 1..89 baselineY is null and the status
\* is the calibration progress; after the 90th baselineY is non-null and the
\* status is "Tracking active"; if the 90 smoothed samples all equal V then
\* baselineY = V.
C4_CalibrationCompletesAt90 ==
  [][DetectedStep =>
       /\ frameCount' < CALIBRATION_FRAMES =>
            /\ baselineY' = Null
            /\ status'.type = "loading" /\ status'.msg = "Calibrating"
       /\ frameCount' = CALIBRATION_FRAMES =>
            /\ baselineY' # Null
            /\ status' = TrackingStatus
            /\ AllEqual(smoothedLog') => baselineY' = smoothedLog'[1]]_vars

\* C4 witness: the 90th sample of a session whose samples were all equal has
\* just been processed
C4_Witness ==
  /\ frameCount = CALIBRATION_FRAMES
  /\ Len(smoothedLog) = CALIBRATION_FRAMES
  /\ AllEqual(smoothedLog)
  /\ baselineY = smoothedLog[1]
  /\ status = TrackingStatus
  /\ lastOutcome = "calibrating"

\* C5: once non-null, baselineY is changed by no step but the state reset of
\* the next startTracking, which sets it to null: active-phase samples,
\* no-face frames, scroll actions, timers and setting changes leave it alone.
C5_BaselineWriteOnce ==
  [][baselineY # Null =>
       \/ baselineY' = baselineY
       \/ session' # session /\ baselineY' = Null]_vars

\* C5 witness: in the active phase, after a scroll action has fired, its
\* lock-release timer has run and a slider has been moved
C5_Witness ==
  /\ isTracking
  /\ baselineY # Null
  /\ frameCount >= CALIBRATION_FRAMES + 2
  /\ timers = <<>>
  /\ lockReleased
  /\ settingsLeft < MaxSettingChanges
  /\ activeLeft < MaxActiveFrames - 1

\* C6 (as stated): once stopTracking has returned, no lock-release timer and
\* no status-reset timer scheduled by a stopped session is pending, and no
\* scroll action issued by a stopped session has yet to reach the executor
\* (the script injection).
C6_Original ==
  /\ \A i \in 1..Len(timers) :
        timers[i].kind \in {"unlock", "statusReset"}
          => timers[i].sess > stoppedUpTo
  /\ \A i \in 1..Len(scrolls) :
        scrolls[i].pc = "query" => scrolls[i].sess > stoppedUpTo

\* C8 (as stated): immediately after a click on the stop button the smoothed
\* position is null, the frame counter is 0, the calibration data are empty,
\* the baseline is null and the scroll lock is clear.
C8_Original ==
  [][StopClick =>
       /\ smoothedY' = Null
       /\ frameCount' = 0
       /\ calibrationData' = <<>>
       /\ baselineY' = Null
       /\ ~scrollLock']_vars

\* a startTracking invocation ends in its catch block, which reports the
\* error and calls stopTracking
StartFailedStep == Len(starts') < Len(starts) /\ session' = session

\* C9 (as stated): stopTracking called when the session is already stopped
\* (not tracking, no stream, no frame callback) changes no variable of the
\* session and not the status: the status the caller has just set (the error
\* report of startTracking's catch block) is still shown.
C9_Original ==
  [][StartFailedStep /\ ~isTracking /\ stream = Null /\ animationId = Null
       => /\ UNCHANGED <<isTracking, stream, animationId, smoothedY,
                         frameCount, calibrationData, baselineY, scrollLock>>
          /\ status'.type = "error"]_vars

\* C10 (as stated): a click on the start button while a session is active or
\* while an earlier startTracking still awaits the camera starts no second
\* frame loop, acquires no second camera stream and does not reset the state
\* of a running session.
C10_Original ==
  /\ [](Len(rafQueue) <= 1 /\ liveStreams <= 1)
  /\ [][isTracking => session' = session]_vars

\* a detection result arrives for a detectMovement invocation that was
\* entered in a session stopped since
StaleResultStep ==
  \E i \in 1..Len(frames) :
    /\ frames[i].sess <= stoppedUpTo
    /\ \/ frames' = RemoveAt(frames, i)
       \/ /\ frames[i].pc = "detect"
          /\ frames' = Append(RemoveAt(frames, i),
                              [frames[i] EXCEPT !.pc = "worker",
                                                !.id = FreshId(Cur),
                                                !.ran = @ \cup {"raster", "worker"}])

\* C7 (as stated): in the worker-enabled driver a detection result (worker
\* reply or FaceDetector result) that arrives after the session of its frame
\* has been stopped changes none of smoothedY, frameCount, calibrationData,
\* baselineY, scrollLock, issues no scroll action and sets no status.
C7_Original ==
  [][StaleResultStep =>
       /\ UNCHANGED <<smoothedY, frameCount, calibrationData, baselineY,
                      scrollLock, status>>
       /\ ~Fired]_vars

\* C11 (as stated): in the worker-enabled driver at most one invocation of
\* detectMovement is in progress at any time (suspended on an await
\* included): frame N+1 is not begun before frame N has completed.
C11_Original == Len(frames) <= 1

\* the displacement smoothed - baseline after the step, and the signed amount
\* the step passes to executeScroll
DisplacementAfter == smoothedY' - baselineY'

IssuedAmount == scrolls'[Len(scrolls')].amount

C13_Original ==
  [][Fired =>
       /\ DisplacementAfter < 0 => IssuedAmount > 0
       /\ DisplacementAfter > 0 => IssuedAmount < 0]_vars

\* C14: every fired scroll action has the magnitude
\* round(min(|displacement| / threshold, 4) * speed): 4 * speed from the
\* displacement 4 * threshold on, the rounded quotient below it, and never
\* more than 4 * speed.
C14_MagnitudeCapped ==
  [][Fired =>
       LET d == Abs(DisplacementAfter)
           a == Abs(IssuedAmount)
           t == MOVEMENT_THRESHOLD * Scale
       IN  /\ a <= MaxIntensity * SCROLL_SPEED
           /\ d >= MaxIntensity * t => a = MaxIntensity * SCROLL_SPEED
           /\ d < MaxIntensity * t =>
                2 * Abs(a * t - d * SCROLL_SPEED) <= t]_vars

\* C14 witness: an action has fired on a displacement beyond 4 * threshold,
\* with the magnitude 4 * speed
C14_Witness ==
  /\ lastOutcome = "fired"
  /\ scrolls # <<>>
  /\ Abs(smoothedY - baselineY) > MaxIntensity * MOVEMENT_THRESHOLD * Scale
  /\ Abs(scrolls[Len(scrolls)].amount) = MaxIntensity * SCROLL_SPEED

\* a frame callback of a tracking session runs detectMovement on a frame in
\* which detectFacePosition finds no face
NoDetectionFrame ==
  /\ isTracking
  /\ rafQueue # <<>>
  /\ Becomes(detectMovement([Cur EXCEPT !.rafQueue = Tail(@)],
                            [ready |-> TRUE, throws |-> FALSE, faceY |-> Null]))

\* C15: a frame with no detection leaves smoothedY, frameCount,
\* calibrationData, baselineY and scrollLock unchanged and issues no scroll
\* action, during calibration and in the active phase.
C15_NoDetectionNoEffect ==
  [][NoDetectionFrame =>
       /\ UNCHANGED <<smoothedY, frameCount, calibrationData, baselineY,
                      scrollLock>>
       /\ ~Fired]_vars

\* C15 witness: a frame without a face has been processed in the active
\* phase while the lock of a fired action was held
C15_Witness ==
  /\ isTracking
  /\ status.msg = "No face detected"
  /\ frameCount > CALIBRATION_FRAMES
  /\ scrollLock
  /\ lastOutcome = "fired"

\* the state in which detectMovement leaves the program when the pending
\* frame callback runs on a frame without a face
AfterNoDetectionFrame ==
  detectMovement([Cur EXCEPT !.rafQueue = Tail(@)],
                 [ready |-> TRUE, throws |-> FALSE, faceY |-> Null])

\* C16 (as stated): every frame with no detection that is processed once
\* calibration is complete (baselineY computed) sets the status to
\* "No face detected": whenever a frame callback of a calibrated tracking
\* session is pending and the video is playing, its run on a frame without
\* a face leaves that status.
C16_Original ==
  isTracking /\ rafQueue # <<>> /\ ~VideoLoading /\ baselineY # Null
    => /\ AfterNoDetectionFrame.status.type = "error"
       /\ AfterNoDetectionFrame.status.msg = "No face detected"

\* C17: per frame the tier selector yields at most one result, that of the
\* first tier that succeeds in the order FaceDetector, worker, synchronous
\* scorer.  For the latest completed frame: at most one tier returned a face,
\* it is a tier that ran, and the frame has a result exactly if a tier
\* returned a face; when the FaceDetector returned a face nothing else ran
\* (no rasterization, no worker, no synchronous scan); the FaceDetector ran
\* exactly if it exists; when it did not return a face the frame was
\* rasterized for the manual detection (tier 2), which went on to the worker
\* or to the synchronous scan unless the rasterization threw; the worker and
\* the synchronous scorer never both ran.
C17_FirstSuccessfulTier ==
  LET t == tierLog
  IN  /\ Cardinality(t.found) <= 1
      /\ t.found \subseteq t.ran
      /\ (t.result # Null) <=> (t.found # {})
      /\ "detector" \in t.found => t.ran = {"detector"}
      /\ t.ran # {} => ("detector" \in t.ran <=> caps.detector)
      /\ t.ran # {} /\ "detector" \notin t.found => "raster" \in t.ran
      /\ "raster" \in t.ran /\ t.ran \cap {"worker", "sync"} = {}
            => faultsLeft < MaxFaultsW
      /\ ~({"worker", "sync"} \subseteq t.ran)

\* the FaceDetector returned a face for a frame of a session, and the frame
\* became a sample
C17_Witness ==
  /\ caps.detector
  /\ tierLog.found = {"detector"}
  /\ tierLog.result = smoothedY
  /\ frameCount = 1

\* detectorWorker.onmessage handles a reply without a face whose resolver is
\* still stored
WorkerNoneReply ==
  /\ workerReplies # <<>>
  /\ Head(workerReplies).faceY = Null
  /\ Head(workerReplies).id \in pendingWorkerPromises
  /\ workerReplies' = Tail(workerReplies)
  /\ pendingWorkerPromises' = pendingWorkerPromises \ {Head(workerReplies).id}

\* C18: the synchronous scorer runs on a frame only if there is no worker
\* (and then the worker did not run on it); when a worker exists and its
\* reply carries no face, the frame's result is none, the synchronous scorer
\* is not run and the frame is no sample.
C18_SyncOnlyWithoutWorker ==
  /\ []("sync" \in tierLog.ran => ~caps.worker /\ "worker" \notin tierLog.ran)
  /\ [][WorkerNoneReply =>
          /\ tierLog'.result = Null
          /\ tierLog'.found = {}
          /\ {"raster", "worker"} \subseteq tierLog'.ran
          /\ "sync" \notin tierLog'.ran
          /\ UNCHANGED <<frameCount, smoothedY, calibrationData>>]_vars

\* the worker replied "no face" for a frame of a session that already has a
\* sample, and the frame ended without a result
C18_Witness ==
  /\ caps.worker
  /\ frameCount >= 1
  /\ {"raster", "worker"} \subseteq tierLog.ran
  /\ tierLog.found = {}
  /\ tierLog.result = Null
  /\ pendingWorkerPromises = {}

\* C19: when no worker was established (Worker unsupported or its
\* construction threw: detectorWorker is null), no call of detectFaceInWorker
\* stores a resolver or posts (and transfers) a buffer, and none is left
\* awaiting a reply: the pending map and both message channels stay empty,
\* no detectMovement invocation is suspended on the worker, and no frame went
\* through the worker.
C19_NoWorkerNoSubmission ==
  ~caps.worker =>
    /\ pendingWorkerPromises = {}
    /\ workerInbox = <<>>
    /\ workerReplies = <<>>
    /\ \A i \in 1..Len(frames) : frames[i].pc # "worker"
    /\ "worker" \notin tierLog.ran

\* without a worker two frames have been through detectFaceInWorker: the
\* latest was rasterized and scanned synchronously, and both became samples
C19_Witness ==
  /\ ~caps.worker
  /\ {"raster", "sync"} \subseteq tierLog.ran
  /\ frameCount = 2
  /\ pendingWorkerPromises = {}

\* the correlation ids of the messages on their way to the worker, and of
\* the replies on their way back
InboxIds == {workerInbox[i] : i \in 1..Len(workerInbox)}

ReplyIds == {workerReplies[i].id : i \in 1..Len(workerReplies)}

\* C20 (as stated): every submission to the worker is resolved exactly once
\* by the reply that carries its id, and none is left pending forever, also
\* when the worker fails while scoring.  Only a reply removes an entry of the
\* pending map, so every entry must have its message or its reply under way,
\* once each, and every message and reply under way must belong to an entry.
C20_Original ==
  /\ pendingWorkerPromises = InboxIds \cup ReplyIds
  /\ InboxIds \cap ReplyIds = {}
  /\ Cardinality(InboxIds) = Len(workerInbox)
  /\ Cardinality(ReplyIds) = Len(workerReplies)
  /\ \A i \in 1..Len(frames) :
        frames[i].pc = "worker" => frames[i].id \in pendingWorkerPromises

\* a pending frame callback will run next (the latest requested one under
\* requestAnimationFrame)
NextFrameScheduled ==
  IF caps.rvfc
    THEN rvfcQueue > 0
    ELSE rafQueue # <<>> /\ rafQueue[Len(rafQueue)]

\* the worker-enabled driver completes a frame of a tracking session on
\* which no tier found a face: the worker replies without a face; or the
\* FaceDetector settles without a face and, there being no worker, the
\* synchronous scan finds none; or, with neither FaceDetector nor worker, the
\* synchronous scan of a frame callback finds none
NoDetectionFrameW ==
  /\ isTracking
  /\ \/ WorkerNoneReply
     \/ \E i \in 1..Len(frames) :
          /\ frames[i].pc = "detect"
          /\ ~caps.worker
          /\ Becomes(detectorSettled(
                [Cur EXCEPT !.frames = RemoveAt(@, i)],
                [sess |-> frames[i].sess, ran |-> frames[i].ran], Null,
                [throws |-> FALSE, faceY |-> Null]))
     \/ /\ ~caps.detector /\ ~caps.worker
        /\ \/ /\ rvfcQueue > 0
              /\ Becomes(enterDetect([Cur EXCEPT !.rvfcQueue = @ - 1],
                                     [throws |-> FALSE, faceY |-> Null]))
           \/ /\ rafQueue # <<>>
              /\ Becomes(enterDetect([Cur EXCEPT !.rafQueue = Tail(@)],
                                     [throws |-> FALSE, faceY |-> Null]))

\* C21: a frame of a tracking session on which no tier detects a face does
\* not end the session: after it isTracking is still true and the next frame
\* callback is scheduled (in popup.js, and in the worker-enabled driver under
\* requestVideoFrameCallback and under requestAnimationFrame).
C21_NoDetectionKeepsSession ==
  [][NoDetectionFrame \/ NoDetectionFrameW
       => isTracking' /\ NextFrameScheduled']_vars

\* in the active phase a frame without a face has been reported, the session
\* goes on and the next frame callback is pending
C21_Witness ==
  /\ isTracking
  /\ frameCount > CALIBRATION_FRAMES
  /\ status = Status("error", "No face detected", 0)
  /\ NextFrameScheduled
  /\ ~scrollLock
  /\ lastOutcome = "quiet"

\* C22 (as stated): when startTracking fails because the frame source is
\* unusable (every getUserMedia constraint refused, the video promise
\* rejected or timed out, invalid dimensions), the status shown once its
\* failure handling (the catch block) has completed is of type error.
C22_Original == [][StartFailedStep => status'.type = "error"]_vars

\* executeScroll ends in its catch block (no active tab, or the script
\* injection was rejected)
ScrollFailedStep == ScrollNoTab \/ ScrollRejected

\* the status-reset timer of a failed scroll is pending
ErrorResetPending ==
  \E i \in 1..Len(timers) : timers[i].kind = "scrollErrorReset"

\* C23: when the scroll executor fails for an action, the session continues
\* (the failure changes neither isTracking nor the pending frame callbacks
\* nor the tracking state), the status becomes error, and the status
\* eventually reverts to tracking: when the reset timer of the failure runs
\* in a session that is active and past calibration it sets "Tracking
\* active", and it does run.
C23_ScrollFailureRecovers ==
  /\ [][ScrollFailedStep =>
          /\ UNCHANGED <<isTracking, rafQueue, animationId, stream, frameCount,
                         smoothedY, baselineY, calibrationData, scrollLock>>
          /\ status'.type = "error"
          /\ ErrorResetPending']_vars
  /\ [][ScrollErrorResetTimer /\ isTracking /\ frameCount > CALIBRATION_FRAMES
          => status' = TrackingStatus]_vars
  /\ (ErrorResetPending ~>
        (status.type = "tracking" \/ ~isTracking
           \/ frameCount <= CALIBRATION_FRAMES))

\* the scroll of an active session has failed: the error is shown, the lock
\* has been released in the meantime, the session goes on with its next
\* frame callback pending, and only the reset timer of the failure is left
C23_Witness ==
  /\ isTracking
  /\ session = 1
  /\ frameCount > CALIBRATION_FRAMES
  /\ status = Status("error", "Cannot scroll this page", 0)
  /\ NextFrameScheduled
  /\ ~scrollLock
  /\ Len(timers) = 1
  /\ ErrorResetPending

\* a frame callback of a tracking session finds the video not ready
\* (video.readyState < 2)
NotReadyFrame ==
  /\ isTracking
  /\ rafQueue # <<>>
  /\ Becomes(detectMovement([Cur EXCEPT !.rafQueue = Tail(@)],
                            [ready |-> FALSE, throws |-> FALSE, faceY |-> Null]))

\* C24: a tick on which the frame source is not ready while tracking is
\* active changes no session state and no status (so raises no error),
\* starts no scroll and no timer, and schedules the next tick.
C24_NotReadyTickIsNoFrame ==
  [][NotReadyFrame =>
       /\ UNCHANGED <<isTracking, stream, smoothedY, frameCount, calibrationData,
                      baselineY, scrollLock, status, timers, scrolls,
                      startBtnShown, stopBtnShown>>
       /\ NextFrameScheduled']_vars

\* a session with samples is tracking while the video element loads the
\* stream of a later startTracking: its ticks find the video not ready
C24_Witness ==
  /\ isTracking
  /\ VideoLoading
  /\ frameCount >= 1
  /\ NextFrameScheduled

\* smoothedY after the next frame callback has processed a frame with a face
\* at raw (in units)
SmoothedAfter(raw) ==
  detectMovement([Cur EXCEPT !.rafQueue = Tail(@)],
                 [ready |-> TRUE, throws |-> FALSE, faceY |-> raw]).smoothedY

\* the law of the temporal filter, for the next sample at any of the
\* positions RawValuesS: the first sample of the session is taken as it is;
\* a later one gives 0.7 * smoothed + 0.3 * raw (to the nearest unit), which
\* lies between the previous smoothed value and raw
FilterLaw ==
  \A y \in RawValuesS :
    LET raw == y * Scale
        sm == SmoothedAfter(raw)
    IN  /\ smoothedY = Null => sm = raw
        /\ smoothedY # Null =>
              /\ 2 * Abs(SmoothingDen * sm
                         - (SMOOTHING_FACTOR * smoothedY
                            + (SmoothingDen - SMOOTHING_FACTOR) * raw))
                   <= SmoothingDen
              /\ Min(smoothedY, raw) <= sm
              /\ sm <= IF smoothedY > raw THEN smoothedY ELSE raw

\* the samples of the session so far were StepLow, StepHigh, StepHigh, ...
OnStepResponse ==
  /\ smoothedLog # <<>>
  /\ smoothedLog[1] = StepLow * Scale
  /\ \A i \in 2..Len(smoothedLog) :
        smoothedLog[i] = Smooth(smoothedLog[i - 1], StepHigh * Scale)

\* a frame callback of a tracking session is pending
FramePending == isTracking /\ rafQueue # <<>>

RawUnits == {RawValues[i] * Scale : i \in 1..Len(RawValues)}

\* C26: no smoothing across sessions.  Whenever a startTracking invocation
\* is about to complete, whatever smoothedY an earlier session has left: if
\* its detectMovement() call detects a face at raw, the smoothed value is raw
\* and it is the one calibration sample; if it detects none, smoothedY is
\* null.  And whenever a tracking session has no sample yet, smoothedY is
\* null and the next detected sample is taken as it is.
C26_NoSmoothingAcrossSessions ==
  /\ \A i \in 1..Len(starts) :
        starts[i].pc = "video" /\ starts[i].owner =>
          \A raw \in RawUnits \cup {Null} :
            LET a == startCompleted(
                       [Cur EXCEPT !.starts = RemoveAt(@, i)],
                       [ready |-> TRUE, throws |-> FALSE, faceY |-> raw])
            IN  /\ a.smoothedY = raw
                /\ raw # Null => a.calibrationData = <<raw>> /\ a.frameCount = 1
  /\ isTracking /\ frameCount = 0 =>
        /\ smoothedY = Null
        /\ rafQueue # <<>> => \A raw \in RawUnits : SmoothedAfter(raw) = raw

\* a second session, started after the first was stopped, has taken its
\* first sample as it is
C26_Witness ==
  /\ session = 2
  /\ stoppedUpTo = 1
  /\ isTracking
  /\ frameCount = 1
  /\ smoothedLog = <<smoothedY>>
  /\ smoothedY = RawValues[3] * Scale

\* C27: once scrollLock is set by a fired action it becomes false again
\* whatever samples follow: while the lock is set a lock-release timer is
\* pending (nothing cancels it, and no sample, frame, failure, stop or
\* restart removes it), and the lock is eventually clear.
C27_LockEventuallyReleased ==
  /\ [](scrollLock => UnlockPending)
  /\ (scrollLock ~> ~scrollLock)

\* a scroll action fired on sample 91; sample 92 was displaced beyond the
\* threshold too and found the lock set; the lock-release timer has fired
\* since and the lock is clear
C27_Witness ==
  /\ session = 1
  /\ isTracking
  /\ frameCount = CALIBRATION_FRAMES + 2
  /\ settingsLeft = MaxSettingChangesL
  /\ lastOutcome = "quiet"
  /\ Exceeds
  /\ lockReleased
  /\ ~scrollLock
  /\ ~UnlockPending

\* C28: no scroll action is issued on any of the first CALIBRATION_FRAMES
\* detected samples of a session, the one that completes the calibration
\* included, however far it is from the baseline it yields: such a sample
\* sets no lock and no timer and leaves the calibration status or "Tracking
\* active"; a sample that issues a scroll action is the 91st or a later one.
C28_NoScrollDuringCalibration ==
  /\ [][DetectedStep /\ frameCount' <= CALIBRATION_FRAMES =>
          /\ ~Fired
          /\ ~scrollLock'
          /\ timers' = timers
          /\ status'.msg \in {"Calibrating", "Tracking active"}]_vars
  /\ [][Fired => frameCount' > CALIBRATION_FRAMES /\ SampleStep]_vars

\* the 90th sample has completed the calibration; it is displaced from the
\* baseline it has produced by more than the threshold, and no scroll action
\* was issued
C28_Witness ==
  /\ frameCount = CALIBRATION_FRAMES
  /\ lastOutcome = "calibrating"
  /\ Exceeds
  /\ scrolls = <<>>
  /\ timers = <<>>
  /\ ~scrollLock
  /\ status = TrackingStatus

\* the brightness of a colour in thousandths, without rounding
ExactLuma(c) == 299 * c[1] + 587 * c[2] + 114 * c[3]

\* the corners (x, y) of the regions the scorer scans in a buffer
ScannedRegions(img) ==
  LET ys == ScanStarts(img.height, 15, 85)
      xs == ScanStarts(img.width, 25, 75)
  IN {<<xs[i], ys[j]>> : i \in 1..Len(xs), j \in 1..Len(ys)}

\* the region at corner o has an average brightness strictly between 60 and
\* 220 and a skin-tone ratio strictly greater than 0.1
Qualifies(img, o) ==
  LET px == RegionPixels(img, o[1], o[2])
      n == Len(px)
      sum == SumSeq([i \in 1..n |-> ExactLuma(px[i])])
      skin == Cardinality({i \in 1..n : SkinTone(px[i])})
  IN /\ n > 0
     /\ 60000 * n < sum
     /\ sum < 220000 * n
     /\ 10 * skin > n

\* C29 as the specification states it: for a buffer in which no scanned
\* region has an average brightness strictly between 60 and 220 together
\* with a skin-tone ratio above 0.1, the region scorer returns none, and so
\* no frame of the buffer is a detected sample
C29_Original ==
  (\A o \in ScannedRegions(imageData) : ~Qualifies(imageData, o))
    => detectFacePosition(imageData) = Null /\ frameCount = 0

\* the arrays that hold the entries of q in any order
Orderings(q) ==
  {[i \in 1..Len(q) |-> q[p[i]]] : p \in Permutations(1..Len(q))}

\* C30 as the specification states it: for a buffer in which exactly one
\* scanned region qualifies, the region scorer returns the top of that region
\* plus 15, in whatever order the regions are visited
C30_Original ==
  \A o \in ScannedRegions(imageData) :
    (\A u \in ScannedRegions(imageData) : Qualifies(imageData, u) <=> u = o)
      => \A regs \in Orderings(regions(imageData)) :
           bestRegionY(imageData, regs) = o[2] + 15

\* C31 as the specification states it: in every reachable state of the
\* worker-enabled driver the pending-request map holds at most one entry
C31_Original == Cardinality(pendingWorkerPromises) <= 1

\* detectorWorker.onmessage calls the resolver stored under the id of the
\* reply, and the detectMovement invocation that transferred its buffer
\* continues
TransferredFrameContinues ==
  /\ workerReplies # <<>>
  /\ Head(workerReplies).id \in pendingWorkerPromises
  /\ workerReplies' = Tail(workerReplies)
  /\ pendingWorkerPromises' = pendingWorkerPromises \ {Head(workerReplies).id}

\* C32: once detectFaceInWorker has transferred the pixel buffer of a frame
\* (the frame is in ran "worker"), the main context does not read the buffer:
\* an invocation suspended on the worker has not run the synchronous scorer,
\* the continuation of such an invocation does not run it whatever the reply
\* carries, and no completed frame went through both the transfer and the
\* synchronous scorer.
C32_TransferredBufferNotRead ==
  /\ [](\A i \in 1..Len(frames) :
          frames[i].pc = "worker"
            => /\ caps.worker
               /\ "worker" \in frames[i].ran
               /\ "sync" \notin frames[i].ran)
  /\ []("worker" \in tierLog.ran => "sync" \notin tierLog.ran)
  /\ [][TransferredFrameContinues
          => "worker" \in tierLog'.ran /\ "sync" \notin tierLog'.ran]_vars

\* the worker found a face in the transferred buffer of a frame, the frame
\* became the first sample without a synchronous scan, and the buffer of the
\* next frame has been transferred
C32_Witness ==
  /\ caps.worker
  /\ tierLog.ran = {"raster", "worker"}
  /\ tierLog.found = {"worker"}
  /\ tierLog.result # Null
  /\ frameCount = 1
  /\ Len(frames) = 1
  /\ frames[1].pc = "worker"
  /\ frames[1].id \in pendingWorkerPromises

\* C33 as the specification states it: after the failure handling of a
\* startTracking that fails the session is terminated: isTracking is false,
\* no frame callback is scheduled, the stream variable is cleared and no
\* camera stream that was obtained is left live (stopTracking stops only the
\* stream the variable holds, so a stream that is live once the variable is
\* cleared is never stopped)
C33_Original ==
  [][StartFailedStep
       => /\ ~isTracking'
          /\ rafQueue' = <<>>
          /\ animationId' = Null
          /\ stream' = Null
          /\ liveStreams' = 0]_vars

\* the lock-release timer that a scroll action of an earlier session
\* scheduled fires while scrollLock is set; startTracking clears the lock, so
\* a lock that is set was acquired by a scroll action of the latest session
StaleUnlockFires ==
  \E i \in 1..Len(timers) :
    /\ timers[i].kind = "unlock"
    /\ timers[i].sess < session
    /\ timers' = RemoveAt(timers, i)
    /\ scrollLock

\* C34 as the specification states it: a lock-release timer scheduled by a
\* scroll action of one session never clears a scrollLock acquired by a scroll
\* action of a later session
C34_Original == [][StaleUnlockFires => scrollLock']_vars

\* the status shown is the feedback of a scroll action
ScrollingFeedback ==
  status.type = "tracking" /\ status.msg \in {"Scrolling DOWN", "Scrolling UP"}

\* C35 as the specification states it: when the status-reset timer of a
\* scroll action fires and changes the status, the status it replaces is the
\* scrolling feedback of that action: not the feedback of a later action
\* (whose own status-reset timer is then still pending), not a no-face status
\* and not a scroll-executor error
C35_Original ==
  [][\A i \in 1..Len(timers) :
       /\ timers[i].kind = "statusReset"
       /\ timers' = RemoveAt(timers, i)
       /\ status' # status
       => /\ ScrollingFeedback
          /\ \A j \in (i + 1)..Len(timers) : timers[j].kind # "statusReset"]_vars

\* the status stopTracking sets
StoppedStatus == Status("ready", "Stopped", 0)

\* C36 as the specification states it: once stopTracking has set the status
\* to ready, the status stays as it is until a startTracking invocation
\* changes it: no timer callback, frame callback, detection result or
\* failing scroll of the stopped session does
C36_Original ==
  [][status = StoppedStatus /\ status' # status => starts' # starts]_vars

\* C37: in every reachable state frameCount >= 0, the calibration data holds
\* min(frameCount, 90) samples (never more than 90), and the baseline is set
\* exactly when frameCount >= 90; frameCount changes only by +1 on a frame
\* with a detected face or by the reset of a start (whose first detection
\* pass may already count one sample).
C37_FrameCountAccounting ==
  /\ [](/\ frameCount >= 0
        /\ Len(calibrationData) = Min(frameCount, CALIBRATION_FRAMES)
        /\ Len(calibrationData) <= CALIBRATION_FRAMES
        /\ (baselineY # Null <=> frameCount >= CALIBRATION_FRAMES))
  /\ [][frameCount' # frameCount
          => \/ session' = session /\ frameCount' = frameCount + 1
                /\ lastOutcome' \in {"calibrating", "quiet", "fired"}
             \/ session' # session /\ frameCount' \in {0, 1}]_vars

C37_Witness ==
  /\ session = 2
  /\ frameCount > CALIBRATION_FRAMES
  /\ Len(calibrationData) = CALIBRATION_FRAMES
  /\ baselineY # Null
  /\ lastOutcome = "quiet"

(* ------------- the gesture translator at every slider position --------- *)
\* the range inputs of popup.html: sensitivity min/max, scrollSpeed min/max
SensitivityMin == 10
SensitivityMax == 50
ScrollSpeedMin == 20
ScrollSpeedMax == 150
\* the value of a range input: an integer between its min and its max
SensitivityPositions == SensitivityMin..SensitivityMax
ScrollSpeedPositions == ScrollSpeedMin..ScrollSpeedMax

\* popup.js just after a calibration on CALIBRATION_FRAMES equal samples at
\* BaselineA, with the two sliders at any of their positions
InitA ==
  /\ isTracking = TRUE
  /\ stream = Handle
  /\ animationId = Handle
  /\ calibrationData = [i \in 1..CALIBRATION_FRAMES |-> BaselineA * Scale]
  /\ baselineY = Mean(calibrationData)
  /\ scrollLock = FALSE
  /\ frameCount = CALIBRATION_FRAMES
  /\ smoothedY = BaselineA * Scale
  /\ MOVEMENT_THRESHOLD \in SensitivityPositions
  /\ SCROLL_SPEED \in ScrollSpeedPositions
  /\ status = TrackingStatus
  /\ startBtnShown = FALSE
  /\ stopBtnShown = TRUE
  /\ rafQueue = <<TRUE>>
  /\ timers = <<>>
  /\ scrolls = <<>>
  /\ starts = <<>>
  /\ liveStreams = 1
  /\ caps = NoCaps
  /\ frames = <<>>
  /\ rvfcQueue = 0
  /\ pendingWorkerPromises = {}
  /\ workerInbox = <<>>
  /\ workerReplies = <<>>
  /\ startsLeft = 0
  /\ session = 1
  /\ stoppedUpTo = 0
  /\ pendingLeft = 0
  /\ faultsLeft = 0
  /\ activeLeft = MaxActiveFramesA
  /\ settingsLeft = 0
  /\ frameLimit = CALIBRATION_FRAMES + MaxActiveFramesA
  /\ smoothedLog = calibrationData
  /\ lastOutcome = "calibrating"
  /\ lockReleased = TRUE
  /\ tierLog = NoTiers
  /\ imageData = NoImage

\* a requestAnimationFrame callback runs detectMovement on a frame with a
\* face at any of the positions RawValuesA
FrameA ==
  /\ rafQueue # <<>>
  /\ activeLeft > 0
  /\ \E y \in RawValuesA :
       Becomes(detectMovement([Cur EXCEPT !.rafQueue = Tail(@)],
                              [ready |-> TRUE, throws |-> FALSE,
                               faceY |-> y * Scale]))

NextA ==
  \/ FrameA
  \/ UnlockTimer
  \/ StatusResetTimer
  \/ ScrollTabFound
  \/ ScrollDone

SpecA == InitA /\ [][NextA]_vars

\* the displacements (in units) at which the magnitude is evaluated for the
\* slider positions of the state: from just above the threshold to beyond
\* the cap of MaxIntensity thresholds
FiringDisplacements ==
  (MOVEMENT_THRESHOLD * Scale + 1)
    ..((MaxIntensity + 1) * MOVEMENT_THRESHOLD * Scale)

\* C38: at every slider position (threshold 10..50, speed 20..150) a fired
\* scroll action has a magnitude m with speed <= m <= 4 * speed, never zero,
\* and fires only at |displacement| > threshold; a sample whose
\* |displacement| equals the threshold fires no action.
C38_MagnitudeWithinSpeedRange ==
  /\ [](/\ MOVEMENT_THRESHOLD \in SensitivityPositions
        /\ SCROLL_SPEED \in ScrollSpeedPositions
        /\ scrolls = <<>> /\ timers = <<>> =>
             \A d \in FiringDisplacements :
               LET m == ScrollAmount(d, MOVEMENT_THRESHOLD, SCROLL_SPEED)
               IN  SCROLL_SPEED <= m /\ m <= MaxIntensity * SCROLL_SPEED)
  /\ [][Fired =>
          LET m == Abs(IssuedAmount)
          IN  /\ SCROLL_SPEED <= m /\ m <= MaxIntensity * SCROLL_SPEED
              /\ m # 0
              /\ Abs(DisplacementAfter) > MOVEMENT_THRESHOLD * Scale]_vars
  /\ [][SampleStep /\ baselineY' # Null
          /\ Abs(DisplacementAfter) = MOVEMENT_THRESHOLD * Scale
          => ~Fired]_vars

\* C38 witness, the bounds: a scroll action of the smallest magnitude (the
\* speed itself) has fired at the largest threshold
C38_Witness ==
  /\ lastOutcome = "fired"
  /\ MOVEMENT_THRESHOLD = SensitivityMax
  /\ Abs(scrolls[Len(scrolls)].amount) < 2 * SCROLL_SPEED
  /\ Abs(smoothedY - baselineY) > MOVEMENT_THRESHOLD * Scale

\* C38 witness, the boundary: a sample left the displacement exactly at the
\* threshold, with the lock free, and no action has fired
C38_WitnessAtThreshold ==
  /\ frameCount > CALIBRATION_FRAMES
  /\ Abs(smoothedY - baselineY) = MOVEMENT_THRESHOLD * Scale
  /\ lastOutcome = "quiet"
  /\ ~scrollLock
  /\ scrolls = <<>>

\* C39 (as stated): for every buffer width and height a non-null value
\* returned by the region scorer is a vertical coordinate inside the buffer:
\* 0 <= result < height.
C39_Original ==
  LET result == detectFacePosition(imageData)
  IN  imageData # NoImage /\ result # Null
        => 0 <= result /\ result < imageData.height
====
